---------------------------- MODULE Spec2Model ----------------------------
(***************************************************************************)
(* A model of the CRM data cleaner: the cleaning pipeline                  *)
(* CRMDataCleaner.clean_dataset (src/cleaner.py) and the merge resolver    *)
(* merge_duplicate_records (src/duplicate_resolution.py).                  *)
(*                                                                         *)
(* A text value is a sequence of one-character strings, so that lower(),   *)
(* strip(), slicing and the regular expressions of the code are computed   *)
(* character by character.  A cell of a table is a record [k, s, n, d]: a  *)
(* text s ("str"), a number n / d ("num") or a missing marker ("nan" for   *)
(* numpy's NaN, "none" for Python's None).                                 *)
(***************************************************************************)
EXTENDS Integers, Sequences, FiniteSets, TLC

(***************************************************************************)
(* Bounds of the model.                                                    *)
(***************************************************************************)
MaxRows == 3
MaxGroup == 3

(***************************************************************************)
(* Characters and text.                                                    *)
(***************************************************************************)
UpperSeq == <<"A","B","C","D","E","F","G","H","I","J","K","L","M",
              "N","O","P","Q","R","S","T","U","V","W","X","Y","Z">>
LowerSeq == <<"a","b","c","d","e","f","g","h","i","j","k","l","m",
              "n","o","p","q","r","s","t","u","v","w","x","y","z">>
DigitSeq == <<"0","1","2","3","4","5","6","7","8","9">>

Range(s) == {s[i] : i \in DOMAIN s}

UpperChars == Range(UpperSeq)
LowerChars == Range(LowerSeq)
Digits == Range(DigitSeq)
Letters == UpperChars \cup LowerChars
Whitespace == {" "}

\* str.lower() on one character
LowerChar(c) ==
    IF c \in UpperChars
    THEN LowerSeq[CHOOSE i \in DOMAIN UpperSeq : UpperSeq[i] = c]
    ELSE c

\* str.lower()
Lower(s) == [i \in DOMAIN s |-> LowerChar(s[i])]

\* the characters of s that are not in the set drop, in order
Without(s, drop) == SelectSeq(s, LAMBDA c : c \notin drop)

\* s[:n]
Prefix(s, n) == SubSeq(s, 1, IF Len(s) < n THEN Len(s) ELSE n)

\* str.strip(chars)
Strip(s, chars) ==
    IF \A i \in DOMAIN s : s[i] \in chars
    THEN << >>
    ELSE LET first == CHOOSE i \in DOMAIN s :
                          s[i] \notin chars /\ \A j \in 1..(i - 1) : s[j] \in chars
             last == CHOOSE i \in DOMAIN s :
                          s[i] \notin chars /\ \A j \in (i + 1)..Len(s) : s[j] \in chars
         IN SubSeq(s, first, last)

\* the regular expression ^\s*$
IsBlank(s) == \A i \in DOMAIN s : s[i] \in Whitespace

\* s.split(sep)[0]
SplitFirst(s, sep) ==
    IF \E i \in DOMAIN s : s[i] = sep
    THEN SubSeq(s, 1, (CHOOSE i \in DOMAIN s :
                           s[i] = sep /\ \A j \in 1..(i - 1) : s[j] # sep) - 1)
    ELSE s

\* the order of text values (Python's < on str), by character code
CharCode(c) ==
    IF c \in Whitespace THEN 0
    ELSE IF c \in Digits THEN 10 + CHOOSE i \in DOMAIN DigitSeq : DigitSeq[i] = c
    ELSE IF c \in UpperChars THEN 30 + CHOOSE i \in DOMAIN UpperSeq : UpperSeq[i] = c
    ELSE IF c \in LowerChars THEN 60 + CHOOSE i \in DOMAIN LowerSeq : LowerSeq[i] = c
    ELSE 5

RECURSIVE TextLess(_, _)
TextLess(a, b) ==
    IF b = << >> THEN FALSE
    ELSE IF a = << >> THEN TRUE
    ELSE IF CharCode(Head(a)) # CharCode(Head(b)) THEN CharCode(Head(a)) < CharCode(Head(b))
    ELSE TextLess(Tail(a), Tail(b))

(***************************************************************************)
(* Cells.                                                                  *)
(***************************************************************************)
Str(s) == [k |-> "str", s |-> s, n |-> 0, d |-> 1]
Frac(n, d) == [k |-> "num", s |-> << >>, n |-> n, d |-> d]
Num(n) == Frac(n, 1)
NaN == [k |-> "nan", s |-> << >>, n |-> 0, d |-> 1]
None == [k |-> "none", s |-> << >>, n |-> 0, d |-> 1]

\* pd.isna / Series.isna / Series.isnull
IsNa(c) == c.k \in {"nan", "none", "nat"}

RECURSIVE NatText(_)
NatText(n) == IF n < 10 THEN <<DigitSeq[n + 1]>> ELSE NatText(n \div 10) \o <<DigitSeq[(n % 10) + 1]>>

\* str(x), Series.astype(str)
PyStr(c) ==
    CASE c.k = "str" -> c.s
      [] c.k = "nan" -> <<"n","a","n">>
      [] c.k = "none" -> <<"N","o","n","e">>
      [] c.k = "num" -> IF c.n < 0 THEN <<"-">> \o NatText(0 - c.n) ELSE NatText(c.n)

(***************************************************************************)
(* Tables: column labels, and rows that carry their index label.           *)
(* colkind is "str" for an Index of text labels and "range" for the        *)
(* RangeIndex of a table built without column names.  f64 is the set of    *)
(* columns (by position) whose dtype is float64 rather than object: a      *)
(* column that holds nothing but NaN.                                      *)
(***************************************************************************)
Table(colkind, cols, rows) ==
    [colkind |-> colkind, cols |-> cols, rows |-> rows, f64 |-> {}]
Row(idx, v) == [idx |-> idx, v |-> v]

EmptyFrame == Table("range", << >>, << >>)

\* len(df)
NRows(df) == Len(df.rows)

\* col in df.columns
HasCol(df, col) == \E i \in DOMAIN df.cols : df.cols[i] = col

ColPos(df, col) == CHOOSE i \in DOMAIN df.cols : df.cols[i] = col

\* row[col], row.get(col)
Cell(df, r, col) == r.v[ColPos(df, col)]

\* df[col] as the sequence of its cells
Column(df, col) == [i \in DOMAIN df.rows |-> Cell(df, df.rows[i], col)]

\* mask.sum(): the number of True entries of a boolean mask
MaskSum(mask) == Cardinality({i \in DOMAIN mask : mask[i]})

\* ~mask
Not(mask) == [i \in DOMAIN mask |-> ~mask[i]]

\* df[mask]: the rows whose mask entry is True, in order, index labels kept
Filter(df, mask) ==
    [df EXCEPT !.rows =
        LET keep == {i \in DOMAIN mask : mask[i]}
            pos(k) == CHOOSE i \in keep : Cardinality({j \in keep : j < i}) = k - 1
        IN [k \in 1..Cardinality(keep) |-> df.rows[pos(k)]]]

\* df[col] = cells: the column replaced by a new one
SetCol(df, col, cells) ==
    [df EXCEPT !.rows =
        [i \in DOMAIN df.rows |-> [df.rows[i] EXCEPT !.v[ColPos(df, col)] = cells[i]]]]

\* df.reset_index(drop=True)
ResetIndex(df) ==
    [df EXCEPT !.rows = [i \in DOMAIN df.rows |-> [df.rows[i] EXCEPT !.idx = i - 1]]]

(***************************************************************************)
(* Column labels used by the code.                                         *)
(***************************************************************************)
K_name == <<"n","a","m","e">>
K_email == <<"e","m","a","i","l">>
K_phone == <<"p","h","o","n","e">>
K_segment == <<"s","e","g","m","e","n","t">>


(***************************************************************************)
(* Outcome of a stage: the table it returns, or the exception it raises.   *)
(***************************************************************************)
Ok(df) == [raised |-> FALSE, df |-> df, error |-> ""]
Raise(msg) == [raised |-> TRUE, df |-> EmptyFrame, error |-> msg]

StrAccessorError == "Can only use .str accessor with string values!"
FloatSplitError == "'float' object has no attribute 'split'"

(***************************************************************************)
(* _convert_empty_strings_to_nan                                           *)
(***************************************************************************)
BlankToNaN(c) == IF c.k = "str" /\ IsBlank(c.s) THEN NaN ELSE c

_convert_empty_strings_to_nan(df) ==
    [df EXCEPT !.rows =
        [i \in DOMAIN df.rows |->
            [df.rows[i] EXCEPT !.v = [j \in DOMAIN df.rows[i].v |-> BlankToNaN(df.rows[i].v[j])]]]]

(***************************************************************************)
(* _standardize_column_names                                               *)
(***************************************************************************)
AlnumLower == LowerChars \cup Digits

\* re.sub(r'[^a-z0-9]+', '_', s): every maximal run of other characters
\* becomes one underscore
RECURSIVE CollapseRuns(_, _)
CollapseRuns(s, inRun) ==
    IF s = << >> THEN << >>
    ELSE IF Head(s) \in AlnumLower THEN <<Head(s)>> \o CollapseRuns(Tail(s), FALSE)
    ELSE IF inRun THEN CollapseRuns(Tail(s), TRUE)
    ELSE <<"_">> \o CollapseRuns(Tail(s), TRUE)

StandardKey(name) == Strip(CollapseRuns(Lower(name), FALSE), {"_"})

\* Index.str raises on an index that holds no text labels (a RangeIndex)
_standardize_column_names(df) ==
    IF df.colkind # "str"
    THEN Raise(StrAccessorError)
    ELSE Ok([df EXCEPT !.cols = [i \in DOMAIN df.cols |-> StandardKey(df.cols[i])]])

(***************************************************************************)
(* _normalize_text                                                         *)
(***************************************************************************)
Punctuation == {".", ",", "!", "?", ";", ":"}

_normalize_text(c) ==
    IF IsNa(c) THEN << >>
    ELSE Without(Without(Lower(PyStr(c)), Punctuation), {" "})

(***************************************************************************)
(* _remove_fuzzy_duplicates                                                *)
(***************************************************************************)
\* the composite key of a row; row.get('email').split raises on a cell
\* that is not text
KeyRaises(df, r) == Cell(df, r, K_email).k # "str"

CompositeKey(df, r) ==
    << _normalize_text(Cell(df, r, K_name)),
       _normalize_text(Str(SplitFirst(Cell(df, r, K_email).s, "@"))),
       Prefix(PyStr(Cell(df, r, K_phone)), 7) >>

\* a fault: groups[key] = [idx] instead of groups[key].append(idx)
AppendToGroup_Overwrite(groups, key, idx) ==
    IF \E g \in DOMAIN groups : groups[g].key = key
    THEN LET g == CHOOSE g \in DOMAIN groups : groups[g].key = key
         IN [groups EXCEPT ![g].idxs = <<idx>>]
    ELSE Append(groups, [key |-> key, idxs |-> <<idx>>])

\* groups[key].append(idx) on a defaultdict(list), kept in insertion order
AppendToGroup(groups, key, idx) ==
    IF \E g \in DOMAIN groups : groups[g].key = key
    THEN LET g == CHOOSE g \in DOMAIN groups : groups[g].key = key
         IN [groups EXCEPT ![g].idxs = Append(@, idx)]
    ELSE Append(groups, [key |-> key, idxs |-> <<idx>>])

RECURSIVE BuildGroups(_, _)
BuildGroups(df, n) ==
    IF n = 0 THEN << >>
    ELSE AppendToGroup(BuildGroups(df, n - 1), CompositeKey(df, df.rows[n]), df.rows[n].idx)

\* df.loc[label]
RowAt(df, label) == df.rows[CHOOSE i \in DOMAIN df.rows : df.rows[i].idx = label]

\* records.notna().sum(axis=1) for one row
Score(r) == Cardinality({j \in DOMAIN r.v : ~IsNa(r.v[j])})

\* a fault: the first record of the group is kept, whatever its score
BestIdx_FirstMember(df, idxs) == idxs[1]

\* scores.idxmax(): the first label of the group with the greatest score
BestIdx(df, idxs) ==
    idxs[CHOOSE i \in DOMAIN idxs :
            /\ \A j \in DOMAIN idxs : Score(RowAt(df, idxs[j])) <= Score(RowAt(df, idxs[i]))
            /\ \A j \in 1..(i - 1) : Score(RowAt(df, idxs[j])) < Score(RowAt(df, idxs[i]))]

KeepIndices(df, groups) ==
    [g \in DOMAIN groups |->
        IF Len(groups[g].idxs) > 1 THEN BestIdx(df, groups[g].idxs) ELSE groups[g].idxs[1]]

RECURSIVE SumSeq(_)
SumSeq(s) == IF s = << >> THEN 0 ELSE Head(s) + SumSeq(Tail(s))

\* a fault: every member of a group of duplicates is counted as removed
RemovedCount_CountsAll(groups) ==
    SumSeq([g \in DOMAIN groups |->
               IF Len(groups[g].idxs) > 1 THEN Len(groups[g].idxs) ELSE 0])

RemovedCount(groups) ==
    SumSeq([g \in DOMAIN groups |->
               IF Len(groups[g].idxs) > 1 THEN Len(groups[g].idxs) - 1 ELSE 0])

\* df.loc[keep_indices].reset_index(drop=True)
Loc(df, labels) == [df EXCEPT !.rows = [i \in DOMAIN labels |-> RowAt(df, labels[i])]]

_remove_fuzzy_duplicates(df) ==
    IF \E i \in DOMAIN df.rows : KeyRaises(df, df.rows[i])
    THEN [raised |-> TRUE, df |-> EmptyFrame, error |-> FloatSplitError,
          removed |-> 0, groups |-> << >>]
    ELSE LET groups == BuildGroups(df, NRows(df))
         IN [raised |-> FALSE,
             df |-> ResetIndex(Loc(df, KeepIndices(df, groups))),
             error |-> "",
             removed |-> RemovedCount(groups),
             groups |-> groups]

(***************************************************************************)
(* _handle_duplicates                                                      *)
(***************************************************************************)
\* a fault: only a row equal to the row just before it is dropped
drop_duplicates_Adjacent(df) ==
    Filter(df, [i \in DOMAIN df.rows |-> i > 1 => df.rows[i - 1].v # df.rows[i].v])

\* df.drop_duplicates(): the first of equal rows is kept, labels are kept
drop_duplicates(df) ==
    Filter(df, [i \in DOMAIN df.rows |-> \A j \in 1..(i - 1) : df.rows[j].v # df.rows[i].v])

FuzzyApplies(df) == HasCol(df, K_name) /\ HasCol(df, K_email) /\ HasCol(df, K_phone)

_handle_duplicates(df) ==
    LET dedup == drop_duplicates(df)
        exact_dups == NRows(df) - NRows(dedup)
        fuzzy == IF FuzzyApplies(dedup)
                 THEN _remove_fuzzy_duplicates(dedup)
                 ELSE [raised |-> FALSE, df |-> dedup, error |-> "",
                       removed |-> 0, groups |-> << >>]
    IN [raised |-> fuzzy.raised,
        df |-> fuzzy.df,
        error |-> fuzzy.error,
        groups |-> fuzzy.groups,
        grouped |-> dedup,
        report |-> [exact_duplicates_removed |-> exact_dups,
                    fuzzy_duplicates_removed |-> fuzzy.removed,
                    total_duplicates_removed |-> exact_dups + fuzzy.removed]]


(***************************************************************************)
(* _standardize_data_formats (the columns of the model: phone and email)   *)
(***************************************************************************)
\* Series.str raises on a column that is not of object dtype
StrRaises(df, col) == ColPos(df, col) \in df.f64

AllNa(df, col) == \A i \in DOMAIN df.rows : IsNa(Cell(df, df.rows[i], col))

\* astype(str), every non-digit removed, then "ddd-dddd" from the first
\* seven digits, NaN when there are fewer than seven
FormatPhone(c) ==
    LET x == SelectSeq(PyStr(c), LAMBDA ch : ch \in Digits)
    IN IF Len(x) >= 7
       THEN Str(SubSeq(x, 1, 3) \o <<"-">> \o SubSeq(x, 4, 7))
       ELSE NaN

\* apply() infers float64 for a non-empty result that holds only NaN
ApplyDtype(df, col) ==
    IF NRows(df) > 0 /\ AllNa(df, col)
    THEN [df EXCEPT !.f64 = @ \cup {ColPos(df, col)}]
    ELSE [df EXCEPT !.f64 = @ \ {ColPos(df, col)}]

\* .str.lower().str.strip().replace(r'^\s*$', np.nan, regex=True)
FormatEmail(c) ==
    IF c.k # "str" THEN NaN
    ELSE BlankToNaN(Str(Strip(Lower(c.s), Whitespace)))

FormatPhoneColumn(df) ==
    IF HasCol(df, K_phone)
    THEN ApplyDtype(SetCol(df, K_phone, [i \in DOMAIN df.rows |->
                                            FormatPhone(Column(df, K_phone)[i])]),
                    K_phone)
    ELSE df

_standardize_data_formats(df) ==
    LET d1 == FormatPhoneColumn(df)
    IN IF HasCol(d1, K_email)
       THEN IF StrRaises(d1, K_email)
            THEN Raise(StrAccessorError)
            ELSE Ok(SetCol(d1, K_email, [i \in DOMAIN d1.rows |->
                                            FormatEmail(Column(d1, K_email)[i])]))
       ELSE Ok(d1)

(***************************************************************************)
(* _validate_and_clean                                                     *)
(***************************************************************************)
LocalChars == Letters \cup Digits \cup {".", "_", "%", "+", "-"}
DomainChars == Letters \cup Digits \cup {".", "-"}

\* ^[a-zA-Z0-9._%+-]+@[a-zA-Z0-9.-]+\.[a-zA-Z]{2,}$
EmailMatches(s) ==
    \E i, j \in DOMAIN s :
        /\ s[i] = "@" /\ s[j] = "."
        /\ 1 < i /\ i + 1 < j /\ j + 1 < Len(s)
        /\ \A a \in 1..(i - 1) : s[a] \in LocalChars
        /\ \A a \in (i + 1)..(j - 1) : s[a] \in DomainChars
        /\ \A a \in (j + 1)..Len(s) : s[a] \in Letters

\* ^\d{3}-\d{4}$
PhoneMatches(s) ==
    /\ Len(s) = 8
    /\ s[4] = "-"
    /\ \A a \in {1, 2, 3, 5, 6, 7, 8} : s[a] \in Digits

\* a fault: na=True, a missing email passes the rule
EmailMask_KeepsMissing(df) ==
    [i \in DOMAIN df.rows |->
        LET c == Column(df, K_email)[i] IN c.k # "str" \/ EmailMatches(c.s)]

\* df['email'].str.match(pattern, na=False)
EmailMask(df) ==
    [i \in DOMAIN df.rows |->
        LET c == Column(df, K_email)[i] IN c.k = "str" /\ EmailMatches(c.s)]

\* df['phone'].str.match(pattern, na=False)
PhoneMask(df) ==
    [i \in DOMAIN df.rows |->
        LET c == Column(df, K_phone)[i] IN c.k = "str" /\ PhoneMatches(c.s)]

valid_segments ==
    { <<"E","n","t","e","r","p","r","i","s","e">>,
      <<"S","M","B">>,
      <<"M","i","d","-","M","a","r","k","e","t">> }

\* df['segment'].isin(self.valid_segments) | df['segment'].isna()
SegmentMask(df) ==
    [i \in DOMAIN df.rows |->
        LET c == Column(df, K_segment)[i]
        IN (c.k = "str" /\ c.s \in valid_segments) \/ IsNa(c)]

\* df[field].isna()
MissingMask(df, field) == [i \in DOMAIN df.rows |-> IsNa(Column(df, field)[i])]

required_fields == <<K_name, K_email>>

EmptyDict == [x \in {} |-> 0]

\* report[key] = (~mask).sum(); df = df[mask]
RemoveInvalid(df, mask, key) ==
    [df |-> Filter(df, mask), removed |-> MaskSum(Not(mask)), key |-> {key}]

Skipped(df) == [df |-> df, removed |-> 0, key |-> {}]

EmailRule(df) ==
    IF HasCol(df, K_email)
    THEN RemoveInvalid(df, EmailMask(df), "invalid_emails_removed")
    ELSE Skipped(df)

PhoneRule(df) ==
    IF HasCol(df, K_phone)
    THEN RemoveInvalid(df, PhoneMask(df), "invalid_phones_removed")
    ELSE Skipped(df)

SegmentRule(df) ==
    IF HasCol(df, K_segment)
    THEN RemoveInvalid(df, SegmentMask(df), "invalid_segments_removed")
    ELSE Skipped(df)

\* the loop over required_fields: missing_fields[field], df = df[~missing_mask]
RECURSIVE RequiredRule(_, _)
RequiredRule(df, n) ==
    IF n = 0 THEN [df |-> df, missing |-> EmptyDict]
    ELSE LET before == RequiredRule(df, n - 1)
             field == required_fields[n]
         IN IF HasCol(df, field)
            THEN LET missing_mask == MissingMask(before.df, field)
                 IN [df |-> Filter(before.df, Not(missing_mask)),
                     missing |-> [f \in {field} |-> MaskSum(missing_mask)]
                                 @@ before.missing]
            ELSE before

\* a fault: the required-field check runs before the email, phone and segment
\* rules
_validate_and_clean_RequiredFirst(df) ==
    LET q == RequiredRule(df, Len(required_fields))
        e == EmailRule(q.df)
        phoneRaises == HasCol(df, K_phone) /\ StrRaises(df, K_phone)
        p == PhoneRule(e.df)
        s == SegmentRule(p.df)
    IN IF phoneRaises
       THEN Raise(StrAccessorError) @@ [report |-> EmptyDict]
       ELSE Ok(s.df) @@
            [report |->
                [k \in e.key |-> e.removed] @@ [k \in p.key |-> p.removed]
                @@ [k \in s.key |-> s.removed]
                @@ [missing_required_fields |-> q.missing,
                    rows_removed_during_validation |-> NRows(df) - NRows(s.df)]]

_validate_and_clean(df) ==
    LET e == EmailRule(df)
        phoneRaises == HasCol(df, K_phone) /\ StrRaises(df, K_phone)
        p == PhoneRule(e.df)
        s == SegmentRule(p.df)
        q == RequiredRule(s.df, Len(required_fields))
    IN IF phoneRaises
       THEN Raise(StrAccessorError) @@ [report |-> EmptyDict]
       ELSE Ok(q.df) @@
            [report |->
                [k \in e.key |-> e.removed] @@ [k \in p.key |-> p.removed]
                @@ [k \in s.key |-> s.removed]
                @@ [missing_required_fields |-> q.missing,
                    rows_removed_during_validation |-> NRows(df) - NRows(q.df)]]

(***************************************************************************)
(* _final_cleanup                                                          *)
(***************************************************************************)
S_Unknown == <<"U","n","k","n","o","w","n">>

\* Series.fillna('Unknown')
FillUnknown(c) == IF IsNa(c) THEN Str(S_Unknown) ELSE c

_final_cleanup(df) ==
    ResetIndex(IF HasCol(df, K_segment)
               THEN SetCol(df, K_segment, [i \in DOMAIN df.rows |->
                                              FillUnknown(Column(df, K_segment)[i])])
               ELSE df)


(***************************************************************************)
(* The tables handed to clean_dataset.                                     *)
(***************************************************************************)
T_Jd == <<"J","d">>
T_jd == <<"j","d">>
T_email == <<"a","@","x",".","c","o">>
T_Email == <<"A","@","x",".","c","o">>
T_noemail == <<"a","b">>
T_digits == <<"1","2","3","4","5","6","7">>
T_dashed == <<"1","2","3","-","4","5","6","7">>
T_SMB == <<"S","M","B">>
T_smb == <<"s","m","b">>

Names == {Str(T_Jd), Str(T_jd), Str(<<" ">>)}
Emails == {Str(T_email), Str(T_Email), Str(T_noemail), NaN}
Phones == {Str(T_digits), Str(T_dashed), NaN}
Segments == {Str(T_SMB), Str(T_smb), NaN}

\* column labels as the caller wrote them
Header4 == << <<"N","a","m","e">>, <<" ","E","m","a","i","l">>,
              <<"P","h","o","n","e">>, <<"S","e","g","m","e","n","t">> >>
Header3 == << K_name, K_email, K_segment >>

Base4 == << Str(T_Jd), Str(T_email), Str(T_digits), Str(T_SMB) >>
Base3 == << Str(T_Jd), Str(T_email), Str(T_SMB) >>

\* the rows that differ from the base row in at most one field
Rows4 ==
    {[Base4 EXCEPT ![1] = x] : x \in Names} \cup {[Base4 EXCEPT ![2] = x] : x \in Emails}
    \cup {[Base4 EXCEPT ![3] = x] : x \in Phones} \cup {[Base4 EXCEPT ![4] = x] : x \in Segments}
Rows3 ==
    {[Base3 EXCEPT ![1] = x] : x \in Names} \cup {[Base3 EXCEPT ![2] = x] : x \in Emails}
    \cup {[Base3 EXCEPT ![3] = x] : x \in Segments}

\* a table read with a RangeIndex: row i carries the label i - 1
Frame(header, vs) == Table("str", header, [i \in DOMAIN vs |-> Row(i - 1, vs[i])])

SeqsUpTo(S, n) == UNION {[1..m -> S] : m \in 0..n}

\* a non-empty column that holds only NaN is float64 when the table was read
\* from a file and object when it was built from Python objects
WithDtypes(t) ==
    {t} \cup
    (IF NRows(t) > 0 /\ \A i \in DOMAIN t.rows : t.rows[i].v[2] = NaN
     THEN {[t EXCEPT !.f64 = {2}]}
     ELSE {})

Inputs ==
    UNION {WithDtypes(Frame(Header4, vs)) : vs \in SeqsUpTo(Rows4, MaxRows)}
    \cup UNION {WithDtypes(Frame(Header3, vs)) : vs \in SeqsUpTo(Rows3, MaxRows)}
    \cup {Table("str", << >>, << >>), Table("range", << >>, << >>)}

(***************************************************************************)
(* State.                                                                  *)
(***************************************************************************)
VARIABLES
    input,      \* the table the caller passed to clean_dataset
    df,         \* the local table of clean_dataset
    report,     \* the local report of clean_dataset
    pc,         \* the stage clean_dataset is about to run, or "done"
    ret,        \* what clean_dataset returned: [df, report]
    applied,    \* the stages that ran to completion, in order
    failed,     \* the stage that raised, or "none"
    grouping,   \* the last composite-key grouping: [df, groups, exact]
    run,        \* 1: the caller's table, 2: the table returned by run 1
    group,      \* the group of records passed to merge_duplicate_records
    strategy,   \* the merge_strategy passed with it
    merged,     \* what merge_duplicate_records did: [raised, record]
    mpc,        \* "idle", "call" before the merge, "merged" after it
    caller,     \* the caller's table object as it is now
    shares,     \* whether df is the caller's table object
    rtable,     \* the df argument of resolve_duplicates
    rgroups,    \* its duplicate_groups argument: the groups, in iteration order
    index_column, \* its index_column argument
    resolved,   \* what resolve_duplicates did: [raised, df]
    rpc,        \* "idle", "group" before identify_duplicate_groups, "call" before
                \* resolve_duplicates, "resolved" after it
    keys,       \* the key columns the groups were made on
    vcaller,    \* the table the caller passed to DataValidator
    vdf,        \* self.df of the validator
    vrep,       \* self.validation_report
    vpc,        \* the stage validate is about to run, "return" or "done"
    vseen,      \* the stages that ran, each with the table it was given
    fvalues,    \* df[column] passed to find_fuzzy_duplicates
    fthreshold, \* its threshold argument
    flimit,     \* its n_matches argument
    fpairs,     \* the rows of the table it returned
    fpc,        \* "idle", "call" before find_fuzzy_duplicates, "found" after it
    cgiven,     \* the table the caller passed to cluster_similar_profiles
    ctable,     \* that table object as it is now
    n_clusters, \* the n_clusters argument, 0 for None
    clustered,  \* what cluster_similar_profiles returned, or that it raised
    cpc         \* "idle", "call" before cluster_similar_profiles, "clustered" after it

pvars == <<input, df, report, pc, ret, applied, failed, grouping, run, caller, shares>>
mvars == <<group, strategy, merged, mpc>>
rvars == <<rtable, rgroups, index_column, resolved, rpc, keys>>
vvars == <<vcaller, vdf, vrep, vpc, vseen>>
fvars == <<fvalues, fthreshold, flimit, fpairs, fpc>>
cvars == <<cgiven, ctable, n_clusters, clustered, cpc>>
xvars == <<rvars, vvars, fvars, cvars>>
vars == <<pvars, mvars, xvars>>

\* the components that are not running
IdleResolver ==
    /\ rtable = EmptyFrame
    /\ rgroups = << >>
    /\ index_column = None
    /\ resolved = [raised |-> FALSE, df |-> EmptyFrame]
    /\ rpc = "idle"
    /\ keys = << >>

IdleValidator ==
    /\ vcaller = EmptyFrame
    /\ vdf = EmptyFrame
    /\ vrep = EmptyDict
    /\ vpc = "idle"
    /\ vseen = << >>

IdleDetection ==
    /\ fvalues = << >>
    /\ fthreshold = 0
    /\ flimit = 0
    /\ fpairs = << >>
    /\ fpc = "idle"

IdleClustering ==
    /\ cgiven = EmptyFrame
    /\ ctable = EmptyFrame
    /\ n_clusters = 0
    /\ clustered = [raised |-> FALSE, df |-> EmptyFrame]
    /\ cpc = "idle"

NoGrouping == [df |-> EmptyFrame, groups |-> << >>, fuzzy |-> FALSE]

Init ==
    /\ input \in Inputs
    /\ df = input
    /\ report = EmptyDict
    /\ pc = "start"
    /\ ret = [df |-> EmptyFrame, report |-> EmptyDict]
    /\ applied = << >>
    /\ failed = "none"
    /\ grouping = NoGrouping
    /\ run = 1
    /\ caller = input
    /\ shares = TRUE
    /\ group = EmptyFrame
    /\ strategy = ""
    /\ merged = [raised |-> FALSE, record |-> << >>]
    /\ mpc = "idle"
    /\ IdleResolver /\ IdleValidator /\ IdleDetection /\ IdleClustering

\* report.update(d)
Update(r, d) == d @@ r

\* a fault: the except branch returns the table as far as it was processed
Fail_ReturnsPartial(stage, error) ==
    /\ pc' = "done"
    /\ failed' = stage
    /\ ret' = [df |-> df,
               report |-> [cleaning_status |-> "failed", error |-> error]]
    /\ UNCHANGED <<input, df, report, applied, run, caller, shares>>

\* the except branch of clean_dataset
Fail(stage, error) ==
    /\ pc' = "done"
    /\ failed' = stage
    /\ ret' = [df |-> EmptyFrame,
               report |-> [cleaning_status |-> "failed", error |-> error]]
    /\ UNCHANGED <<input, df, report, applied, run, caller, shares>>

\* a fault: the table is cleaned in place, without the copy
Detached_InPlace(shared) == shared

\* df.copy(deep=True) and df.replace(...) each return a new table object:
\* whether the object the next statement works on is still the one passed in
Detached(shared) == FALSE

\* original_count, df.copy(deep=True), _convert_empty_strings_to_nan,
\* _standardize_column_names; the assignment to df.columns writes to the
\* object df is bound to
Prepare ==
    /\ pc = "start"
    /\ LET r == _standardize_column_names(_convert_empty_strings_to_nan(input))
       IN IF r.raised
          THEN Fail("prepare", r.error)
          ELSE /\ df' = r.df
               /\ shares' = Detached(shares)
               /\ caller' = IF shares' THEN r.df ELSE caller
               /\ report' = [original_count |-> NRows(input)]
               /\ applied' = Append(applied, "prepare")
               /\ pc' = "duplicates"
               /\ UNCHANGED <<input, ret, failed, run>>
    /\ UNCHANGED <<grouping, mvars, xvars>>

\* df.drop_duplicates() binds df to a new table object
HandleDuplicates ==
    /\ pc = "duplicates"
    /\ LET r == _handle_duplicates(df)
       IN /\ grouping' = [df |-> r.grouped, groups |-> r.groups,
                          fuzzy |-> FuzzyApplies(df) /\ ~r.raised]
          /\ IF r.raised
             THEN Fail("duplicates", r.error)
             ELSE /\ df' = r.df
                  /\ shares' = FALSE
                  /\ report' = Update(report, r.report)
                  /\ applied' = Append(applied, "duplicates")
                  /\ pc' = "format"
                  /\ UNCHANGED <<input, ret, failed, run, caller>>
    /\ UNCHANGED <<mvars, xvars>>

\* the column assignments write to the object df is bound to, which is the
\* result of drop_duplicates or of df.loc[...].reset_index
StandardizeFormats ==
    /\ pc = "format"
    /\ LET r == _standardize_data_formats(df)
       IN IF r.raised
          THEN Fail("format", r.error)
          ELSE /\ df' = r.df
               /\ applied' = Append(applied, "format")
               /\ pc' = "validate"
               /\ UNCHANGED <<input, report, ret, failed, run, caller, shares>>
    /\ UNCHANGED <<grouping, mvars, xvars>>

ValidateAndClean ==
    /\ pc = "validate"
    /\ LET r == _validate_and_clean(df)
       IN IF r.raised
          THEN Fail("validate", r.error)
          ELSE /\ df' = r.df
               /\ report' = Update(report, r.report)
               /\ applied' = Append(applied, "validate")
               /\ pc' = "final"
               /\ UNCHANGED <<input, ret, failed, run, caller, shares>>
    /\ UNCHANGED <<grouping, mvars, xvars>>

\* _final_cleanup, the closing report.update and the return
FinalCleanup ==
    /\ pc = "final"
    /\ LET out == _final_cleanup(df)
       IN /\ df' = out
          /\ report' = Update(report, [cleaned_count |-> NRows(out),
                                       rows_removed |-> NRows(input) - NRows(out),
                                       cleaning_status |-> "success"])
          /\ ret' = [df |-> out, report |-> report']
    /\ applied' = Append(applied, "final")
    /\ pc' = "done"
    /\ UNCHANGED <<input, failed, grouping, run, caller, shares, mvars, xvars>>

\* the caller passes the table a successful run returned to clean_dataset again
Rerun ==
    /\ pc = "done"
    /\ run = 1
    /\ ret.report.cleaning_status = "success"
    /\ input' = ret.df
    /\ df' = ret.df
    /\ report' = EmptyDict
    /\ pc' = "start"
    /\ ret' = [df |-> EmptyFrame, report |-> EmptyDict]
    /\ applied' = << >>
    /\ failed' = "none"
    /\ grouping' = NoGrouping
    /\ run' = 2
    /\ caller' = ret.df
    /\ shares' = TRUE
    /\ UNCHANGED <<mvars, xvars>>

Next ==
    \/ Prepare
    \/ HandleDuplicates
    \/ StandardizeFormats
    \/ ValidateAndClean
    \/ FinalCleanup
    \/ Rerun

Spec == Init /\ [][Next]_vars


(***************************************************************************)
(* Properties of the pipeline.                                             *)
(***************************************************************************)
Done == pc = "done"
Succeeded == Done /\ ret.report.cleaning_status = "success"

\* report.get(k, 0)
Get(d, k) == IF k \in DOMAIN d THEN d[k] ELSE 0

RECURSIVE SumOver(_, _)
SumOver(d, ks) ==
    IF ks = {} THEN 0
    ELSE LET k == CHOOSE k \in ks : TRUE IN d[k] + SumOver(d, ks \ {k})

\* the sum of the per-stage removal counts of a report
RemovedPerStage(r) ==
    Get(r, "exact_duplicates_removed") + Get(r, "fuzzy_duplicates_removed")
    + Get(r, "invalid_emails_removed") + Get(r, "invalid_phones_removed")
    + Get(r, "invalid_segments_removed")
    + SumOver(r.missing_required_fields, DOMAIN r.missing_required_fields)

\* C1: after a run that ends with cleaning_status 'success', original_count is
\* the number of rows passed in, cleaned_count is the number of rows returned,
\* and cleaned_count plus every per-stage removal count equals original_count.
C1_CountConservation ==
    Succeeded =>
        /\ ret.report.original_count = NRows(input)
        /\ ret.report.cleaned_count = NRows(ret.df)
        /\ ret.report.cleaned_count + RemovedPerStage(ret.report)
               = ret.report.original_count

\* a successful run in which the fuzzy stage and the segment rule each
\* removed a row
C1_Witness ==
    /\ Succeeded
    /\ ret.report.fuzzy_duplicates_removed > 0
    /\ Get(ret.report, "invalid_segments_removed") > 0
    /\ ret.report.cleaned_count < ret.report.original_count

\* C2: a second run of clean_dataset on the table a successful run returned
\* succeeds and removes no row.
C2_Idempotence ==
    (Done /\ run = 2) =>
        /\ ret.report.cleaning_status = "success"
        /\ ret.report.rows_removed = 0

StageOrder == <<"prepare", "duplicates", "format", "validate", "final">>

StagesBefore(stage) ==
    SubSeq(StageOrder, 1, (CHOOSE i \in DOMAIN StageOrder : StageOrder[i] = stage) - 1)

\* C3: when a stage raises, no later stage runs and the call returns the empty
\* table with a report whose status is 'failed' and that carries the error;
\* a run in which no stage raised ran every stage and reports 'success'.
C3_AtomicFailure ==
    /\ failed # "none" => Done
    /\ Done =>
        /\ ret.report.cleaning_status \in {"success", "failed"}
        /\ failed # "none" =>
              /\ applied = StagesBefore(failed)
              /\ ret.df = EmptyFrame
              /\ ret.report.cleaning_status = "failed"
              /\ DOMAIN ret.report = {"cleaning_status", "error"}
              /\ ret.report.error # ""
        /\ failed = "none" =>
              /\ applied = StageOrder
              /\ ret.report.cleaning_status = "success"
        /\ ret.report.cleaning_status = "failed" => NRows(ret.df) = 0

\* the validation stage raised after three stages had changed the table
C3_Witness ==
    /\ Done
    /\ failed = "validate"
    /\ NRows(input) > 0
    /\ df # input

GroupSet(g) == Range(g.idxs)
Labels(t) == {t.rows[i].idx : i \in DOMAIN t.rows}

Prepared(t) == _standardize_column_names(_convert_empty_strings_to_nan(t)).df

\* the rows of t in the order pi, relabelled 0..n-1
Shuffled(t, pi) == [t EXCEPT !.rows = [i \in DOMAIN t.rows |-> Row(i - 1, t.rows[pi[i]].v)]]

\* the groups as sets of records
Membership(t, gs) == {{RowAt(t, gs[g].idxs[i]).v : i \in DOMAIN gs[g].idxs} : g \in DOMAIN gs}
Records(t) == {t.rows[i].v : i \in DOMAIN t.rows}

\* C5: for every permutation of the rows of the table, the exact-duplicate
\* stage keeps the same set of records, the composite-key grouping has the same
\* groups as sets of records, and both removal counts are the same.
C5_OrderIndependence ==
    (pc = "format" /\ run = 1) =>
        \A pi \in Permutations(DOMAIN input.rows) :
            LET other == _handle_duplicates(Shuffled(Prepared(input), pi))
            IN /\ ~other.raised
               /\ Records(other.grouped) = Records(grouping.df)
               /\ Membership(other.grouped, other.groups)
                      = Membership(grouping.df, grouping.groups)
               /\ other.report.exact_duplicates_removed = report.exact_duplicates_removed
               /\ other.report.fuzzy_duplicates_removed = report.fuzzy_duplicates_removed

\* three rows, of which one is an exact duplicate and one a fuzzy duplicate
C5_Witness ==
    /\ pc = "format" /\ run = 1
    /\ NRows(input) = 3
    /\ report.exact_duplicates_removed = 1
    /\ report.fuzzy_duplicates_removed = 1

\* a row with every text folded to lower case
FoldCase(v) == [j \in DOMAIN v |-> IF v[j].k = "str" THEN Str(Lower(v[j].s)) ELSE v[j]]

\* C6: rows that differ only in letter case are collapsed by the
\* exact-duplicate stage and counted in exact_duplicates_removed.
C6_ExactStageFoldsCase ==
    (pc = "format" /\ run = 1) =>
        LET before == Prepared(input)
            after == grouping.df
        IN /\ \A i, j \in DOMAIN after.rows :
                  FoldCase(after.rows[i].v) = FoldCase(after.rows[j].v) => i = j
           /\ report.exact_duplicates_removed
                  = NRows(before) - Cardinality({FoldCase(v) : v \in Records(before)})

\* C7: clean_dataset on a table of zero rows, with or without columns,
\* returns an empty table and a 'success' report whose counts are both 0.
C7_EmptyInput ==
    (Done /\ run = 1 /\ NRows(input) = 0) =>
        /\ NRows(ret.df) = 0
        /\ ret.report.cleaning_status = "success"
        /\ ret.report.original_count = 0
        /\ ret.report.cleaned_count = 0


(***************************************************************************)
(* merge_duplicate_records                                                 *)
(*                                                                         *)
(* The outcome of merging one column is a record [raised, value]; a set of *)
(* outcomes where the code leaves the choice open (the iteration order of  *)
(* a Python set of strings).                                               *)
(***************************************************************************)
Value(c) == [raised |-> FALSE, value |-> c]
TypeError == [raised |-> TRUE, value |-> None]

\* group[col].dropna()
DropNa(cells) == SelectSeq(cells, LAMBDA c : ~IsNa(c))

\* group[col].dtype == 'object': the column holds text or None
IsObject(cells) == \E i \in DOMAIN cells : cells[i].k \in {"str", "none"}

\* a numeric column that holds NaN is a float column, otherwise an int column
IsFloat(cells) == ~IsObject(cells) /\ \E i \in DOMAIN cells : cells[i].k = "nan"

\* group[col].dropna().iloc[0] if not group[col].isnull().all() else None
FirstValid(cells) == IF DropNa(cells) = << >> THEN None ELSE DropNa(cells)[1]

\* the order of the values of one column: numbers by value, text by TextLess
CellLess(a, b) ==
    IF a.k = "num" /\ b.k = "num" THEN a.n * b.d < b.n * a.d
    ELSE TextLess(a.s, b.s)

Occurrences(cells, c) == Cardinality({i \in DOMAIN cells : cells[i] = c})

\* Series.mode(): the most frequent non-missing values, sorted ascending
Modes(cells) ==
    LET vals == DropNa(cells)
    IN {c \in Range(vals) : \A x \in Range(vals) : Occurrences(vals, x) <= Occurrences(vals, c)}

Least(S) == CHOOSE c \in S : \A x \in S \ {c} : CellLess(c, x)
Greatest(S) == CHOOSE c \in S : \A x \in S \ {c} : CellLess(x, c)

\* mode.iloc[0] if not mode.empty else None
MostFrequent(cells) ==
    IF IsObject(cells)
    THEN IF Modes(cells) = {} THEN None ELSE Least(Modes(cells))
    ELSE FirstValid(cells)

\* astype(str) of one cell of the column: a float prints with its ".0"
AsTypeStr(cells, c) ==
    IF c.k = "num" /\ IsFloat(cells) THEN PyStr(c) \o <<".", "0">> ELSE PyStr(c)

\* .astype(str).str.strip().replace('nan', '')
StringValue(cells, c) ==
    LET x == Strip(AsTypeStr(cells, c), Whitespace)
    IN IF x = <<"n","a","n">> THEN << >> ELSE x

RECURSIVE Join(_, _)
Join(parts, sep) ==
    IF parts = << >> THEN << >>
    ELSE IF Len(parts) = 1 THEN parts[1]
    ELSE parts[1] \o sep \o Join(Tail(parts), sep)

\* list(set(values)): the values in any order
Orderings(S) ==
    {q \in [1..Cardinality(S) -> S] : \A i, j \in DOMAIN q : q[i] = q[j] => i = j}

\* '; '.join(unique_non_empty) if unique_non_empty else None
Concatenate(cells) ==
    LET unique_non_empty == {StringValue(cells, cells[i]) : i \in DOMAIN cells} \ {<< >>}
    IN IF unique_non_empty = {}
       THEN {Value(None)}
       ELSE {Value(Str(Join(q, <<";", " ">>))) : q \in Orderings(unique_non_empty)}

RECURSIVE Gcd(_, _)
Gcd(a, b) == IF b = 0 THEN a ELSE Gcd(b, a % b)

\* numeric_values.mean(): raises on text
Mean(vals) ==
    IF \E i \in DOMAIN vals : vals[i].k # "num"
    THEN TypeError
    ELSE LET total == SumSeq([i \in DOMAIN vals |-> vals[i].n])
             g == Gcd(IF total < 0 THEN 0 - total ELSE total, Len(vals))
         IN Value(Frac(total \div g, Len(vals) \div g))

Average(cells) == IF DropNa(cells) = << >> THEN Value(None) ELSE Mean(DropNa(cells))
Minimum(cells) == IF DropNa(cells) = << >> THEN None ELSE Least(Range(DropNa(cells)))
Maximum(cells) == IF DropNa(cells) = << >> THEN None ELSE Greatest(Range(DropNa(cells)))

KnownStrategies == {"first_valid", "most_frequent", "concatenate", "average", "min", "max"}

\* a fault: an unrecognized strategy takes the value of the first record
MergeColumn_DefaultFirstRecord(cells, merge_strategy) ==
    CASE merge_strategy = "first_valid" -> {Value(FirstValid(cells))}
      [] merge_strategy = "most_frequent" -> {Value(MostFrequent(cells))}
      [] merge_strategy = "concatenate" -> Concatenate(cells)
      [] merge_strategy = "average" -> {Average(cells)}
      [] merge_strategy = "min" -> {Value(Minimum(cells))}
      [] merge_strategy = "max" -> {Value(Maximum(cells))}
      [] OTHER -> {Value(cells[1])}

\* the branch of the loop body for one column
MergeColumn(cells, merge_strategy) ==
    CASE merge_strategy = "first_valid" -> {Value(FirstValid(cells))}
      [] merge_strategy = "most_frequent" -> {Value(MostFrequent(cells))}
      [] merge_strategy = "concatenate" -> Concatenate(cells)
      [] merge_strategy = "average" -> {Average(cells)}
      [] merge_strategy = "min" -> {Value(Minimum(cells))}
      [] merge_strategy = "max" -> {Value(Maximum(cells))}
      [] OTHER -> {Value(FirstValid(cells))}

\* the values of column j of the group, in the order of its records
GroupColumn(g, j) == [i \in DOMAIN g.rows |-> g.rows[i].v[j]]

\* every outcome of merge_duplicate_records(group, merge_strategy): the merged
\* record, one value per column, or the exception of the first column that raises
merge_duplicate_records(g, merge_strategy) ==
    LET outcomes == [j \in DOMAIN g.cols |-> MergeColumn(GroupColumn(g, j), merge_strategy)]
        all == UNION {outcomes[j] : j \in DOMAIN g.cols}
    IN IF \E j \in DOMAIN g.cols : TypeError \in outcomes[j]
       THEN {[raised |-> TRUE, record |-> << >>]}
       ELSE {[raised |-> FALSE, record |-> [j \in DOMAIN g.cols |-> q[j].value]] :
                q \in {q \in [DOMAIN g.cols -> all] : \A j \in DOMAIN g.cols : q[j] \in outcomes[j]}}

(***************************************************************************)
(* The groups handed to merge_duplicate_records.                           *)
(***************************************************************************)
K_city == <<"c","i","t","y">>
K_orders == <<"o","r","d","e","r","s">>

Cities == {Str(<<"b">>), Str(<<"a">>), NaN, None}
Orders == {Num(2), Num(1), NaN}

Strategies == KnownStrategies \cup {"newest", "FIRST_VALID"}

NonEmptySeqs(S, n) == UNION {[1..m -> S] : m \in 1..n}

Groups ==
    {Frame(<<K_city>>, vs) : vs \in NonEmptySeqs({<<c>> : c \in Cities}, MaxGroup)}
    \cup {Frame(<<K_orders>>, vs) : vs \in NonEmptySeqs({<<c>> : c \in Orders}, MaxGroup)}
    \cup {Frame(<<K_city, K_orders>>, vs) :
             vs \in NonEmptySeqs({<<Str(<<"a">>), Num(1)>>, <<Str(<<"a">>), NaN>>,
                                  <<NaN, Num(1)>>, <<NaN, NaN>>}, MaxGroup)}

InitMerge ==
    /\ input = EmptyFrame
    /\ df = EmptyFrame
    /\ report = EmptyDict
    /\ pc = "idle"
    /\ ret = [df |-> EmptyFrame, report |-> EmptyDict]
    /\ applied = << >>
    /\ failed = "none"
    /\ grouping = NoGrouping
    /\ run = 1
    /\ caller = EmptyFrame
    /\ shares = FALSE
    /\ IdleResolver /\ IdleValidator /\ IdleDetection /\ IdleClustering
    /\ group \in Groups
    /\ strategy \in Strategies
    /\ merged = [raised |-> FALSE, record |-> << >>]
    /\ mpc = "call"

Merge ==
    /\ mpc = "call"
    /\ merged' \in merge_duplicate_records(group, strategy)
    /\ mpc' = "merged"
    /\ UNCHANGED <<group, strategy, pvars, xvars>>

NextMerge == Merge

SpecMerge == InitMerge /\ [][NextMerge]_vars


(***************************************************************************)
(* Properties of merge_duplicate_records.                                  *)
(***************************************************************************)
Merged == mpc = "merged"

CellKinds == {"str", "num", "nan", "none"}

\* C8: for every non-empty group, every field and each of the six merge
\* policies, merge_duplicate_records does not fail and returns a record with a
\* value or a missing marker for every field.
C8_MergeTotal ==
    (Merged /\ strategy \in KnownStrategies) =>
        /\ ~merged.raised
        /\ DOMAIN merged.record = DOMAIN group.cols
        /\ \A j \in DOMAIN merged.record : merged.record[j].k \in CellKinds

\* the value among S that occurs first in the sequence vals
FirstOf(vals, S) ==
    vals[CHOOSE i \in DOMAIN vals : vals[i] \in S /\ \A j \in 1..(i - 1) : vals[j] \notin S]

\* C9: under 'most_frequent', when several values of a field are tied for the
\* greatest frequency, the merged value is the tied value that occurs first in
\* the order of the group's records.
C9_MostFrequentTie ==
    (Merged /\ strategy = "most_frequent" /\ ~merged.raised) =>
        \A j \in DOMAIN group.cols :
            LET cells == GroupColumn(group, j)
            IN Cardinality(Modes(cells)) > 1 =>
                   merged.record[j] = FirstOf(cells, Modes(cells))

AllMissing(cells) == \A i \in DOMAIN cells : IsNa(cells[i])

\* C10: under every merge policy, known or not, a field that is missing in
\* every record of the group is missing in the merged record, and it is not
\* that field that makes the merge fail.
C10_AllMissingStaysMissing ==
    Merged =>
        \A j \in DOMAIN group.cols :
            AllMissing(GroupColumn(group, j)) =>
                IF merged.raised
                THEN \E h \in DOMAIN group.cols : ~AllMissing(GroupColumn(group, h))
                ELSE IsNa(merged.record[j])

\* the stringified values of a column that are not missing in the group
DistinctValues(cells) ==
    {AsTypeStr(cells, cells[i]) : i \in {i \in DOMAIN cells : ~IsNa(cells[i])}}

\* C11: under 'concatenate' the merged value of every field is the distinct
\* non-missing stringified values of the field, each once, joined by '; '
\* (missing when there is none), and the group has one possible merged record.
C11_ConcatenateDeterministic ==
    (Merged /\ strategy = "concatenate" /\ ~merged.raised) =>
        /\ \A j \in DOMAIN group.cols :
               LET vals == DistinctValues(GroupColumn(group, j))
               IN IF vals = {}
                  THEN IsNa(merged.record[j])
                  ELSE \E q \in Orderings(vals) :
                           merged.record[j] = Str(Join(q, <<";", " ">>))
        /\ Cardinality(merge_duplicate_records(group, "concatenate")) = 1

\* C13: under a strategy name that is none of the six known ones,
\* merge_duplicate_records does not raise and returns the record that
\* 'first_valid' returns for the same group.
C13_UnknownIsFirstValid ==
    (Merged /\ strategy \notin KnownStrategies) =>
        /\ ~merged.raised
        /\ merge_duplicate_records(group, "first_valid") = {merged}

\* an unrecognized strategy merged a group whose first record misses a value
\* that a later record has
C13_Witness ==
    /\ Merged
    /\ strategy \notin KnownStrategies
    /\ \E j \in DOMAIN group.cols :
           /\ IsNa(GroupColumn(group, j)[1])
           /\ ~IsNa(merged.record[j])


(***************************************************************************)
(* resolve_duplicates                                                      *)
(*                                                                         *)
(* A record of the resolved table is a function from column labels to      *)
(* cells: pd.DataFrame(merged_records) aligns the records by label.        *)
(***************************************************************************)
\* group.drop(columns=[index_column] if index_column in group.columns else [])
DropColumn(g, ic) ==
    IF ic.k = "str" /\ HasCol(g, ic.s)
    THEN LET keep == SelectSeq([j \in DOMAIN g.cols |-> j], LAMBDA j : g.cols[j] # ic.s)
         IN [g EXCEPT !.cols = [k \in DOMAIN keep |-> g.cols[keep[k]]],
                      !.rows = [i \in DOMAIN g.rows |->
                                   Row(g.rows[i].idx, [k \in DOMAIN keep |-> g.rows[i].v[keep[k]]])]]
    ELSE g

\* a row or a merged record as a Series: label -> value
AsSeries(cols, v) == [c \in Range(cols) |-> v[CHOOSE j \in DOMAIN cols : cols[j] = c]]

\* merged[index_column] = group[index_column].iloc[0]
PreserveIndex(g, ic, series) ==
    IF ic.k = "str" /\ HasCol(g, ic.s)
    THEN (ic.s :> g.rows[1].v[ColPos(g, ic.s)]) @@ series
    ELSE series

\* a fault: the identifier column is merged like every other column
ResolveGroup_MergesIndex(g, merge_strategy, ic) ==
    IF NRows(g) > 1
    THEN {[raised |-> o.raised,
           record |-> IF o.raised THEN EmptyDict ELSE AsSeries(g.cols, o.record)] :
             o \in merge_duplicate_records(g, merge_strategy)}
    ELSE {[raised |-> FALSE, record |-> AsSeries(g.cols, g.rows[1].v)]}

\* the body of the loop over the groups: every outcome for one group
ResolveGroup(g, merge_strategy, ic) ==
    IF NRows(g) > 1
    THEN {[raised |-> o.raised,
           record |-> IF o.raised THEN EmptyDict
                      ELSE PreserveIndex(g, ic, AsSeries(DropColumn(g, ic).cols, o.record))] :
             o \in merge_duplicate_records(DropColumn(g, ic), merge_strategy)}
    ELSE {[raised |-> FALSE, record |-> AsSeries(g.cols, g.rows[1].v)]}

\* every outcome of resolve_duplicates: the resolved records, one per group in
\* the order of the groups, or the exception of the first merge that raises
resolve_duplicates(table, duplicate_groups, merge_strategy, ic) ==
    LET outcomes == [i \in DOMAIN duplicate_groups |->
                        ResolveGroup(duplicate_groups[i], merge_strategy, ic)]
        all == UNION {outcomes[i] : i \in DOMAIN duplicate_groups}
    IN IF \E i \in DOMAIN duplicate_groups : \E o \in outcomes[i] : o.raised
       THEN {[raised |-> TRUE, df |-> << >>]}
       ELSE {[raised |-> FALSE, df |-> [i \in DOMAIN q |-> q[i].record]] :
                q \in {q \in [DOMAIN duplicate_groups -> all] :
                          \A i \in DOMAIN duplicate_groups : q[i] \in outcomes[i]}}

(***************************************************************************)
(* The tables and groups handed to resolve_duplicates: the groups of a     *)
(* groupby on name, each with an identifier column and a text column.      *)
(***************************************************************************)
K_id == <<"i","d">>

Ids == {Num(1), Num(2), NaN}
HeaderR == <<K_name, K_id, K_city>>
RowsR(name) == {<<Str(name), i, c>> : i \in Ids, c \in {Str(<<"a">>), Str(<<"b">>)}}

IndexColumns == {None, Str(K_id), Str(K_phone)}

\* the rows of the groups, in order, relabelled 0..n-1, and the groups over them
Grouped(vss) ==
    LET offset(i) == SumSeq([k \in 1..(i - 1) |-> Len(vss[k])])
    IN [i \in DOMAIN vss |->
           Table("str", HeaderR, [k \in DOMAIN vss[i] |-> Row(offset(i) + k - 1, vss[i][k])])]

RECURSIVE Concat(_)
Concat(ss) == IF ss = << >> THEN << >> ELSE Head(ss) \o Concat(Tail(ss))

GroupLists ==
    {<<vs>> : vs \in NonEmptySeqs(RowsR(T_Jd), MaxGroup)}
    \cup {<<<<r>>, vs>> : r \in {<<Str(T_jd), Num(2), Str(<<"b">>)>>},
                          vs \in NonEmptySeqs(RowsR(T_Jd), MaxGroup - 1)}

InitResolve ==
    /\ input = EmptyFrame
    /\ df = EmptyFrame
    /\ report = EmptyDict
    /\ pc = "idle"
    /\ ret = [df |-> EmptyFrame, report |-> EmptyDict]
    /\ applied = << >>
    /\ failed = "none"
    /\ grouping = NoGrouping
    /\ run = 1
    /\ caller = EmptyFrame
    /\ shares = FALSE
    /\ group = EmptyFrame
    /\ merged = [raised |-> FALSE, record |-> << >>]
    /\ mpc = "idle"
    /\ IdleValidator /\ IdleDetection /\ IdleClustering
    /\ strategy \in Strategies
    /\ index_column \in IndexColumns
    /\ \E vss \in GroupLists :
          /\ rgroups = Grouped(vss)
          /\ rtable = Frame(HeaderR, Concat(vss))
    /\ resolved = [raised |-> FALSE, df |-> << >>]
    /\ rpc = "call"
    /\ keys = <<K_name>>

\* the call: nothing in resolve_duplicates assigns into df or into a group
\* (group.drop and group.iloc[0] return new objects)
Resolve ==
    /\ rpc = "call"
    /\ resolved' \in resolve_duplicates(rtable, rgroups, strategy, index_column)
    /\ rpc' = "resolved"
    /\ UNCHANGED <<rtable, rgroups, index_column, keys, pvars, mvars, vvars, fvars, cvars>>

NextResolve == Resolve

SpecResolve == InitResolve /\ [][NextResolve]_vars

Resolved == rpc = "resolved"

\* C12: when index_column is a column of the table, the record merged from a
\* group of more than one record carries the index_column value of the
\* group's first record, under every merge strategy.
C12_PreservedKey ==
    (Resolved /\ ~resolved.raised /\ index_column.k = "str") =>
        \A i \in DOMAIN rgroups :
            (HasCol(rgroups[i], index_column.s) /\ NRows(rgroups[i]) > 1) =>
                /\ index_column.s \in DOMAIN resolved.df[i]
                /\ resolved.df[i][index_column.s]
                       = rgroups[i].rows[1].v[ColPos(rgroups[i], index_column.s)]

\* under 'max' a group whose first identifier is 1 and whose second is 2 was
\* merged, and the merged identifier is 1
C12_Witness ==
    /\ Resolved /\ ~resolved.raised
    /\ strategy = "max"
    /\ index_column = Str(K_id)
    /\ \E i \in DOMAIN rgroups :
          /\ NRows(rgroups[i]) > 1
          /\ rgroups[i].rows[1].v[2] = Num(1)
          /\ rgroups[i].rows[2].v[2] = Num(2)
          /\ resolved.df[i][K_id] = Num(1)


(***************************************************************************)
(* Missing values in the composite-key grouping.                           *)
(***************************************************************************)
\* a record of t with a missing name, email or phone
MissesKeyField(t, r) ==
    IsNa(Cell(t, r, K_name)) \/ IsNa(Cell(t, r, K_email)) \/ IsNa(Cell(t, r, K_phone))

\* C14: the duplicate stage does not fail on a table with the columns name,
\* email and phone whatever values are missing, and a record with a missing
\* name, email or phone shares its group with no other record.
C14_MissingNeverMatchesNorFails ==
    /\ failed # "duplicates"
    /\ grouping.fuzzy =>
           \A g \in DOMAIN grouping.groups :
               Len(grouping.groups[g].idxs) > 1 =>
                   \A i \in DOMAIN grouping.groups[g].idxs :
                       ~MissesKeyField(grouping.df,
                                       RowAt(grouping.df, grouping.groups[g].idxs[i]))


(***************************************************************************)
(* _standardize_column_names on the column labels of a caller's table.     *)
(***************************************************************************)
MaxCols == 2

\* column labels as callers write them
Labels19 ==
    { <<"E","m","a","i","l">>, <<"e","m","a","i","l">>, <<" ","e","m","a","i","l"," ">>,
      <<"E","-","m","a","i","l">>, <<"e"," ","m","a","i","l">>, <<"e","_","m","a","i","l">>,
      <<"N","a","m","e">>, <<"n","a","m","e">>, <<"n","a","m","e","!">>,
      <<"p","h","o","n","e">> }

\* headers of pairwise distinct labels
Headers19 ==
    {h \in SeqsUpTo(Labels19, MaxCols) : \A i, j \in DOMAIN h : h[i] = h[j] => i = j}

IdleMerge ==
    /\ group = EmptyFrame
    /\ strategy = ""
    /\ merged = [raised |-> FALSE, record |-> << >>]
    /\ mpc = "idle"

InitColumns ==
    /\ \E h \in Headers19 : input = Table("str", h, << >>)
    /\ df = input
    /\ report = EmptyDict
    /\ pc = "columns"
    /\ ret = [df |-> EmptyFrame, report |-> EmptyDict]
    /\ applied = << >>
    /\ failed = "none"
    /\ grouping = NoGrouping
    /\ run = 1
    /\ caller = input
    /\ shares = FALSE
    /\ IdleMerge /\ IdleResolver /\ IdleValidator /\ IdleDetection /\ IdleClustering

\* df = self._standardize_column_names(df)
StandardizeColumns ==
    /\ pc = "columns"
    /\ LET r == _standardize_column_names(df)
       IN /\ df' = r.df
          /\ failed' = IF r.raised THEN "prepare" ELSE "none"
    /\ pc' = "named"
    /\ UNCHANGED <<input, report, ret, applied, grouping, run, caller, shares, mvars, xvars>>

NextColumns == StandardizeColumns

SpecColumns == InitColumns /\ [][NextColumns]_vars

\* C19: after _standardize_column_names the field keys of a table whose
\* column labels were pairwise distinct are pairwise distinct.
C19_FieldKeysUnique ==
    (pc = "named" /\ failed = "none") =>
        \A i, j \in DOMAIN df.cols : df.cols[i] = df.cols[j] => i = j


(***************************************************************************)
(* DataValidator                                                           *)
(*                                                                         *)
(* A datetime cell carries its distance from the time of validation in     *)
(* n: positive for a date in the future.  A message of the report is a     *)
(* record [text, field, count]: the wording, the column it names and the   *)
(* count it states.                                                        *)
(***************************************************************************)
Date(n) == [k |-> "date", s |-> << >>, n |-> n, d |-> 1]
NaT == [k |-> "nat", s |-> << >>, n |-> 0, d |-> 1]

Msg(text, field, count) == [text |-> text, field |-> field, count |-> count]

K_postal_code == <<"p","o","s","t","a","l","_","c","o","d","e">>
K_signup_date == <<"s","i","g","n","u","p","_","d","a","t","e">>
K_age == <<"a","g","e">>

\* str.upper()
UpperChar(c) ==
    IF c \in LowerChars
    THEN UpperSeq[CHOOSE i \in DOMAIN LowerSeq : LowerSeq[i] = c]
    ELSE c
Upper(s) == [i \in DOMAIN s |-> UpperChar(s[i])]

\* sub in col.lower()
Contains(s, sub) ==
    \E i \in 0..(Len(s) - Len(sub)) : SubSeq(s, i + 1, i + Len(sub)) = sub

\* self.validation_report after __init__
InitialReport(t) ==
    [errors |-> << >>, warnings |-> << >>, removed_rows |-> 0,
     initial_count |-> NRows(t), final_count |-> NRows(t)]

Warn(r, m) == [r EXCEPT !.warnings = Append(@, m)]
Err(r, m) == [r EXCEPT !.errors = Append(@, m)]

\* if invalid.any(): self.df = self.df[~invalid]; errors.append(msg)
RemoveRows(t, r, invalid, text, field) ==
    IF MaskSum(invalid) > 0
    THEN [df |-> Filter(t, Not(invalid)), report |-> Err(r, Msg(text, field, MaskSum(invalid)))]
    ELSE [df |-> t, report |-> r]

\* ~self.df['email'].astype(str).str.match(email_regex, na=False)
InvalidEmails(t) ==
    [i \in DOMAIN t.rows |-> ~EmailMatches(PyStr(Column(t, K_email)[i]))]

_validate_emails(t, r) ==
    IF ~HasCol(t, K_email)
    THEN [df |-> t, report |-> Warn(r, Msg("No email column found", K_email, 0))]
    ELSE RemoveRows(t, r, InvalidEmails(t),
                    "Removed {count} rows with invalid email addresses", K_email)

\* phonenumbers.parse(str(phone), "US") and is_valid_number: a national
\* number of ten digits whose area code and exchange start with 2..9,
\* with or without the country code 1
NanpDigits == {"2", "3", "4", "5", "6", "7", "8", "9"}

is_valid_phone(c) ==
    /\ ~IsNa(c)
    /\ LET digits == SelectSeq(PyStr(c), LAMBDA x : x \in Digits)
           national == IF Len(digits) = 11 /\ digits[1] = "1" THEN Tail(digits) ELSE digits
       IN /\ Len(national) = 10
          /\ national[1] \in NanpDigits
          /\ national[4] \in NanpDigits

InvalidPhones(t) == [i \in DOMAIN t.rows |-> ~is_valid_phone(Column(t, K_phone)[i])]

_validate_phones(t, r) ==
    IF ~HasCol(t, K_phone)
    THEN [df |-> t, report |-> Warn(r, Msg("No phone column found", K_phone, 0))]
    ELSE RemoveRows(t, r, InvalidPhones(t),
                    "Removed {count} rows with invalid phone numbers", K_phone)

\* the body of the loop of _check_required_fields for one field
CheckRequired(t, r, field) ==
    IF HasCol(t, field)
    THEN RemoveRows(t, r, MissingMask(t, field),
                    "Removed {count} rows with missing {field} values", field)
    ELSE [df |-> t, report |-> Warn(r, Msg("Required field {field} not found in data", field, 0))]

RECURSIVE CheckRequiredLoop(_, _, _)
CheckRequiredLoop(t, r, fields) ==
    IF fields = << >> THEN [df |-> t, report |-> r]
    ELSE LET one == CheckRequired(t, r, Head(fields))
         IN CheckRequiredLoop(one.df, one.report, Tail(fields))

_check_required_fields(t, r) == CheckRequiredLoop(t, r, <<K_name, K_email>>)

\* pd.api.types.is_datetime64_any_dtype(self.df[col])
IsDatetime(cells) == \A i \in DOMAIN cells : cells[i].k \in {"date", "nat"}

\* the columns of a table, in order, that satisfy a test given as a mask
ColumnsWhere(t, mask) == SelectSeq([j \in DOMAIN t.cols |-> j], LAMBDA j : mask[j])

\* the body of the loop of _validate_dates for one column
CheckDates(t, r, col) ==
    LET cells == Column(t, col)
        future_dates == [i \in DOMAIN cells |-> cells[i].k = "date" /\ cells[i].n > 0]
    IN IF IsDatetime(cells) /\ MaskSum(future_dates) > 0
       THEN Warn(r, Msg("Found {count} rows with future dates in {col}", col, MaskSum(future_dates)))
       ELSE r

RECURSIVE CheckDatesLoop(_, _, _)
CheckDatesLoop(t, r, js) ==
    IF js = << >> THEN r
    ELSE CheckDatesLoop(t, CheckDates(t, r, t.cols[Head(js)]), Tail(js))

\* a fault: rows with a future date are removed and reported as errors
_validate_dates_Hard(t, r) ==
    LET future == [i \in DOMAIN t.rows |->
                      \E j \in DOMAIN t.cols : t.rows[i].v[j].k = "date" /\ t.rows[i].v[j].n > 0]
    IN RemoveRows(t, r, future, "Removed {count} rows with future dates", K_signup_date)

_validate_dates(t, r) ==
    [df |-> t,
     report |-> CheckDatesLoop(t, r,
                    ColumnsWhere(t, [j \in DOMAIN t.cols |->
                                        Contains(Lower(t.cols[j]), <<"d","a","t","e">>)]))]

\* ^\d{5}(?:-\d{4})?$
UsPostal(s) ==
    \/ Len(s) = 5 /\ \A i \in 1..5 : s[i] \in Digits
    \/ Len(s) = 10 /\ s[6] = "-" /\ \A i \in (1..5) \cup (7..10) : s[i] \in Digits

\* ^[A-Za-z]\d[A-Za-z][ -]?\d[A-Za-z]\d$
CaPostal(s) ==
    LET shape(x) == /\ Len(x) = 6
                    /\ \A i \in {1, 3, 5} : x[i] \in Letters
                    /\ \A i \in {2, 4, 6} : x[i] \in Digits
    IN \/ shape(s)
       \/ Len(s) = 7 /\ s[4] \in {" ", "-"} /\ shape(SubSeq(s, 1, 3) \o SubSeq(s, 5, 7))

validate_postal(c) ==
    /\ ~IsNa(c)
    /\ LET code == Without(Upper(PyStr(c)), {" "})
       IN UsPostal(code) \/ CaPostal(code)

InvalidPostal(t) ==
    [i \in DOMAIN t.rows |-> ~validate_postal(Column(t, K_postal_code)[i])]

_validate_postal_codes(t, r) ==
    IF ~HasCol(t, K_postal_code)
    THEN [df |-> t, report |-> r]
    ELSE RemoveRows(t, r, InvalidPostal(t),
                    "Removed {count} rows with invalid postal codes", K_postal_code)

\* self.df.select_dtypes(include=np.number)
IsNumeric(cells) == \A i \in DOMAIN cells : cells[i].k \in {"num", "nan"}

\* the body of the loop of _check_value_ranges for one column
CheckRange(t, r, col) ==
    LET cells == Column(t, col)
        invalid == [i \in DOMAIN cells |->
                       cells[i].k = "num" /\ (cells[i].n < 0 \/ cells[i].n > 120 * cells[i].d)]
        negative_values == [i \in DOMAIN cells |-> cells[i].k = "num" /\ cells[i].n < 0]
        aged == IF Contains(Lower(col), K_age) /\ MaskSum(invalid) > 0
                THEN Warn(r, Msg("Found {count} rows with invalid age values in {col}",
                                 col, MaskSum(invalid)))
                ELSE r
    IN IF (Contains(Lower(col), <<"a","m","o","u","n","t">>)
              \/ Contains(Lower(col), <<"p","r","i","c","e">>))
          /\ MaskSum(negative_values) > 0
       THEN Warn(aged, Msg("Found {count} rows with negative values in {col}",
                           col, MaskSum(negative_values)))
       ELSE aged

RECURSIVE CheckRangeLoop(_, _, _)
CheckRangeLoop(t, r, js) ==
    IF js = << >> THEN r
    ELSE CheckRangeLoop(t, CheckRange(t, r, t.cols[Head(js)]), Tail(js))

_check_value_ranges(t, r) ==
    [df |-> t,
     report |-> CheckRangeLoop(t, r,
                    ColumnsWhere(t, [j \in DOMAIN t.cols |->
                                        IsNumeric([i \in DOMAIN t.rows |-> t.rows[i].v[j]])]))]

(***************************************************************************)
(* The tables handed to DataValidator: rows that differ from a base row in *)
(* at most one field, under the full header or with one column absent.    *)
(***************************************************************************)
MaxVRows == 2

T_phone10 == <<"2","0","1","5","5","5","0","1","2","3">>
T_zip == <<"1","2","3","4","5">>
T_ca == <<"k","1","a"," ","0","b","1">>
T_bad == <<"b","a","d">>
T_year == <<"2","9","9","9">>

HeaderV == <<K_name, K_email, K_phone, K_signup_date, K_postal_code, K_age>>
BaseV == <<Str(T_Jd), Str(T_email), Str(T_phone10), Date(-1), Str(T_zip), Num(30)>>

RowsV ==
    {[BaseV EXCEPT ![1] = x] : x \in {Str(T_Jd), NaN}}
    \cup {[BaseV EXCEPT ![2] = x] : x \in {Str(T_noemail), NaN}}
    \cup {[BaseV EXCEPT ![3] = x] : x \in {Str(T_digits), NaN}}
    \cup {[BaseV EXCEPT ![4] = x] : x \in {Date(1), NaT, Str(T_year)}}
    \cup {[BaseV EXCEPT ![5] = x] : x \in {Str(T_ca), Str(T_bad), NaN}}
    \cup {[BaseV EXCEPT ![6] = x] : x \in {Num(130), NaN}}

VInputs ==
    UNION {{Frame(HeaderV, vs)} \cup {DropColumn(Frame(HeaderV, vs), Str(HeaderV[j])) :
                                         j \in DOMAIN HeaderV} :
              vs \in SeqsUpTo(RowsV, MaxVRows)}

IdlePipeline ==
    /\ input = EmptyFrame
    /\ df = EmptyFrame
    /\ report = EmptyDict
    /\ pc = "idle"
    /\ ret = [df |-> EmptyFrame, report |-> EmptyDict]
    /\ applied = << >>
    /\ failed = "none"
    /\ grouping = NoGrouping
    /\ run = 1
    /\ caller = EmptyFrame
    /\ shares = FALSE

\* the state after DataValidator(df): self.df = df.copy()
InitValidate ==
    /\ IdlePipeline /\ IdleMerge /\ IdleResolver /\ IdleDetection /\ IdleClustering
    /\ vcaller \in VInputs
    /\ vdf = vcaller
    /\ vrep = InitialReport(vcaller)
    /\ vpc = "emails"
    /\ vseen = << >>

\* one stage of validate: self.df is bound to the table the stage leaves;
\* no stage assigns into a table
Stage(stage, next, result) ==
    /\ vdf' = result.df
    /\ vrep' = result.report
    /\ vseen' = Append(vseen, [stage |-> stage, df |-> vdf])
    /\ vpc' = next
    /\ UNCHANGED <<vcaller, pvars, mvars, rvars, fvars, cvars>>

ValidateEmails ==
    /\ vpc = "emails"
    /\ Stage("emails", "phones", _validate_emails(vdf, vrep))

ValidatePhones ==
    /\ vpc = "phones"
    /\ Stage("phones", "required", _validate_phones(vdf, vrep))

CheckRequiredFields ==
    /\ vpc = "required"
    /\ Stage("required", "dates", _check_required_fields(vdf, vrep))

ValidateDates ==
    /\ vpc = "dates"
    /\ Stage("dates", "postal", _validate_dates(vdf, vrep))

ValidatePostalCodes ==
    /\ vpc = "postal"
    /\ Stage("postal", "ranges", _validate_postal_codes(vdf, vrep))

\* a fault: final_count is left as __init__ set it
CheckValueRanges_KeepsFinalCount ==
    /\ vpc = "ranges"
    /\ LET out == _check_value_ranges(vdf, vrep)
       IN Stage("ranges", "done",
                [df |-> out.df,
                 report |-> [out.report EXCEPT
                                !.removed_rows = out.report.initial_count - NRows(out.df)]])

\* _check_value_ranges, then final_count, removed_rows and the return
CheckValueRanges ==
    /\ vpc = "ranges"
    /\ LET out == _check_value_ranges(vdf, vrep)
       IN Stage("ranges", "done",
                [df |-> out.df,
                 report |-> [out.report EXCEPT
                                !.final_count = NRows(out.df),
                                !.removed_rows = out.report.initial_count - NRows(out.df)]])

NextValidate ==
    \/ ValidateEmails
    \/ ValidatePhones
    \/ CheckRequiredFields
    \/ ValidateDates
    \/ ValidatePostalCodes
    \/ CheckValueRanges

SpecValidate == InitValidate /\ [][NextValidate]_vars

(***************************************************************************)
(* Properties of DataValidator.validate.                                   *)
(***************************************************************************)
VStageOrder == <<"emails", "phones", "required", "dates", "postal", "ranges">>

Validated == vpc = "done"

\* the rows of t are rows of u, with their labels
RowsWithin(t, u) == Range(t.rows) \subseteq Range(u.rows)

\* C16: the stages of validate run once each in the order emails, phones,
\* required fields, dates, postal codes, value ranges; the table a stage is
\* given holds only rows of the table every earlier stage was given, and so
\* does the final table; when validate returns, final_count is the number of
\* rows left and removed_rows is initial_count - final_count.
C16_StageOrderAndPermanence ==
    /\ Len(vseen) <= Len(VStageOrder)
    /\ \A i \in DOMAIN vseen : vseen[i].stage = VStageOrder[i]
    /\ vpc # "idle" =>
           vpc = (IF Len(vseen) = Len(VStageOrder) THEN "done" ELSE VStageOrder[Len(vseen) + 1])
    /\ \A i, j \in DOMAIN vseen : i < j => RowsWithin(vseen[j].df, vseen[i].df)
    /\ \A i \in DOMAIN vseen : RowsWithin(vdf, vseen[i].df)
    /\ Validated =>
           /\ vrep.initial_count = NRows(vcaller)
           /\ vrep.final_count = NRows(vdf)
           /\ vrep.removed_rows = vrep.initial_count - vrep.final_count

\* validate returned after the email stage and the postal-code stage each
\* removed a row
C16_Witness ==
    /\ Validated
    /\ vrep.removed_rows = 2
    /\ NRows(vseen[2].df) = 1
    /\ NRows(vseen[5].df) = 1
    /\ NRows(vdf) = 0

\* s is a prefix of t
IsPrefix(s, t) == Len(s) <= Len(t) /\ SubSeq(t, 1, Len(s)) = s

\* a step of the date stage or of the value-range stage keeps the table and
\* the errors, and only appends to the warnings
SoftStageStep ==
    vpc \in {"dates", "ranges"} =>
        /\ vdf' = vdf
        /\ vrep'.errors = vrep.errors
        /\ IsPrefix(vrep.warnings, vrep'.warnings)

\* C17: the date stage and the value-range stage leave the validator's table
\* as it was; they add nothing to the report's errors and only append to its
\* warnings.
C17_SoftRulesKeepRows == [][SoftStageStep]_vars

\* validate returned with a warning about a future date and a warning about
\* an age out of range, and both rows are still in the table
C17_Witness ==
    /\ Validated
    /\ NRows(vcaller) = 2
    /\ NRows(vdf) = 2
    /\ \E i, j \in DOMAIN vrep.warnings :
          /\ vrep.warnings[i] = Msg("Found {count} rows with future dates in {col}", K_signup_date, 1)
          /\ vrep.warnings[j] = Msg("Found {count} rows with invalid age values in {col}", K_age, 1)

\* the step appends a warning that names the column
WarnsAbout(col) ==
    \E i \in (Len(vrep.warnings) + 1)..Len(vrep'.warnings) : vrep'.warnings[i].field = col

\* a step of the email, phone, required-field or postal-code stage on a table
\* without the column the stage needs
MissingColumnStep ==
    /\ (vpc = "emails" /\ ~HasCol(vdf, K_email)) => (vdf' = vdf /\ WarnsAbout(K_email))
    /\ (vpc = "phones" /\ ~HasCol(vdf, K_phone)) => (vdf' = vdf /\ WarnsAbout(K_phone))
    /\ vpc = "required" =>
           /\ \A f \in {K_name, K_email} : ~HasCol(vdf, f) => WarnsAbout(f)
           /\ \A r \in Range(vdf.rows) \ Range(vdf'.rows) :
                  \E f \in {K_name, K_email} : HasCol(vdf, f) /\ IsNa(Cell(vdf, r, f))
    /\ (vpc = "postal" /\ ~HasCol(vdf, K_postal_code)) =>
           (vdf' = vdf /\ WarnsAbout(K_postal_code))

\* C20: when the column that the email, phone, required-field or postal-code
\* stage needs is absent, the stage removes no row and appends a warning that
\* names the absent column.
C20_MissingColumnWarns == [][MissingColumnStep]_vars


(***************************************************************************)
(* find_fuzzy_duplicates                                                   *)
(*                                                                         *)
(* process.extract scores the query against every choice with fuzz.ratio   *)
(* after utils.full_process on both, and keeps the limit best; fuzz.ratio  *)
(* is 100 * SequenceMatcher.ratio(), rounded.                              *)
(***************************************************************************)
\* df[column].dropna().unique(): the values in the order of first occurrence
RECURSIVE Unique(_)
Unique(cells) ==
    IF cells = << >> THEN << >>
    ELSE LET rest == Unique(SubSeq(cells, 1, Len(cells) - 1))
             last == cells[Len(cells)]
         IN IF IsNa(last) \/ last.s \in Range(rest) THEN rest ELSE Append(rest, last.s)

\* utils.full_process: characters that are neither letters nor digits become
\* spaces, then lower case, then strip
full_process(s) ==
    Strip(Lower([i \in DOMAIN s |-> IF s[i] \in Letters \cup Digits THEN s[i] ELSE " "]),
          Whitespace)

\* SequenceMatcher.find_longest_match: the longest common block, the earliest
\* in a among the longest, the earliest in b among those
Blocks(a, b) ==
    {x \in [i : DOMAIN a, j : DOMAIN b, k : 1..Len(a)] :
        /\ x.i + x.k - 1 <= Len(a)
        /\ x.j + x.k - 1 <= Len(b)
        /\ SubSeq(a, x.i, x.i + x.k - 1) = SubSeq(b, x.j, x.j + x.k - 1)}

LongestMatch(a, b) ==
    CHOOSE x \in Blocks(a, b) :
        \A y \in Blocks(a, b) :
            \/ x.k > y.k
            \/ x.k = y.k /\ (x.i < y.i \/ (x.i = y.i /\ x.j <= y.j))

\* the total size of SequenceMatcher.get_matching_blocks
RECURSIVE MatchSize(_, _)
MatchSize(a, b) ==
    IF Blocks(a, b) = {} THEN 0
    ELSE LET m == LongestMatch(a, b)
         IN m.k + MatchSize(SubSeq(a, 1, m.i - 1), SubSeq(b, 1, m.j - 1))
                + MatchSize(SubSeq(a, m.i + m.k, Len(a)), SubSeq(b, m.j + m.k, Len(b)))

\* int(round(x)) for x = num / den: halves go to the even neighbour
RoundDiv(num, den) ==
    LET q == num \div den
        r == num % den
    IN IF 2 * r > den THEN q + 1
       ELSE IF 2 * r = den THEN q + (q % 2)
       ELSE q

\* fuzz.ratio
ratio(s1, s2) ==
    IF s1 = s2 THEN 100
    ELSE IF s1 = << >> \/ s2 = << >> THEN 0
    ELSE RoundDiv(200 * MatchSize(s1, s2), Len(s1) + Len(s2))

\* heapq.nlargest(n, items, key=similarity): the n best, the earlier first
\* among equals
RECURSIVE Largest(_, _)
Largest(items, n) ==
    IF n = 0 \/ items = << >> THEN << >>
    ELSE LET best == CHOOSE i \in DOMAIN items :
                         /\ \A j \in DOMAIN items : items[j].similarity <= items[i].similarity
                         /\ \A j \in 1..(i - 1) : items[j].similarity < items[i].similarity
         IN <<items[best]>>
            \o Largest(SubSeq(items, 1, best - 1) \o SubSeq(items, best + 1, Len(items)), n - 1)

\* process.extract(val, unique_values, scorer=fuzz.ratio, limit=n_matches)
extract(val, unique_values, limit) ==
    Largest([i \in DOMAIN unique_values |->
                [choice |-> unique_values[i],
                 similarity |-> ratio(full_process(val), full_process(unique_values[i]))]],
            limit)

\* tuple(sorted((val, match)))
SortedPair(a, b) == IF TextLess(b, a) THEN <<b, a>> ELSE <<a, b>>

\* the inner loop: the matches of one value, appended to duplicates
RECURSIVE AddMatches(_, _, _, _)
AddMatches(duplicates, val, matches, threshold) ==
    IF matches = << >> THEN duplicates
    ELSE LET m == Head(matches)
             listed == {<<duplicates[i].value1, duplicates[i].value2>> : i \in DOMAIN duplicates}
         IN AddMatches(
                IF m.similarity >= threshold /\ val # m.choice
                   /\ SortedPair(val, m.choice) \notin listed
                THEN Append(duplicates, [value1 |-> val, value2 |-> m.choice,
                                         similarity |-> m.similarity])
                ELSE duplicates,
                val, Tail(matches), threshold)

\* the outer loop over unique_values
RECURSIVE FindLoop(_, _, _, _, _)
FindLoop(duplicates, todo, unique_values, threshold, limit) ==
    IF todo = << >> THEN duplicates
    ELSE FindLoop(AddMatches(duplicates, Head(todo),
                             extract(Head(todo), unique_values, limit), threshold),
                  Tail(todo), unique_values, threshold, limit)

\* the rows of the returned table: sort_values(by='similarity', ascending=False)
find_fuzzy_duplicates(cells, threshold, n_matches) ==
    LET duplicates == FindLoop(<< >>, Unique(cells), Unique(cells), threshold, n_matches)
    IN Largest(duplicates, Len(duplicates))

(***************************************************************************)
(* The columns handed to find_fuzzy_duplicates.                            *)
(***************************************************************************)
MaxValues == 3

FValues == {Str(<<"a","b">>), Str(<<"A","b">>), Str(<<"a","c">>), Str(<<"b">>), NaN}
Thresholds == {50, 85}
Limits == {1, 2, 5}

InitDetect ==
    /\ IdlePipeline /\ IdleMerge /\ IdleResolver /\ IdleValidator /\ IdleClustering
    /\ fvalues \in SeqsUpTo(FValues, MaxValues)
    /\ fthreshold \in Thresholds
    /\ flimit \in Limits
    /\ fpairs = << >>
    /\ fpc = "call"

Detect ==
    /\ fpc = "call"
    /\ fpairs' = find_fuzzy_duplicates(fvalues, fthreshold, flimit)
    /\ fpc' = "found"
    /\ UNCHANGED <<fvalues, fthreshold, flimit, pvars, mvars, rvars, vvars, cvars>>

NextDetect == Detect

SpecDetect == InitDetect /\ [][NextDetect]_vars

\* C15: the result of find_fuzzy_duplicates never holds both (a, b) and
\* (b, a) nor the same pair twice, and every row has value1 # value2 and a
\* similarity of at least the threshold.
C15_SymmetricPairsOnce ==
    fpc = "found" =>
        /\ \A i, j \in DOMAIN fpairs :
               i # j => {fpairs[i].value1, fpairs[i].value2}
                           # {fpairs[j].value1, fpairs[j].value2}
        /\ \A i \in DOMAIN fpairs :
               /\ fpairs[i].value1 # fpairs[i].value2
               /\ fpairs[i].similarity >= fthreshold


(***************************************************************************)
(* The three entry points that receive a caller's table: clean_dataset,    *)
(* DataValidator(df).validate() and resolve_duplicates.                    *)
(***************************************************************************)
InitCallers == Init \/ InitValidate \/ InitResolve

NextCallers == Next \/ NextValidate \/ NextResolve

SpecCallers == InitCallers /\ [][NextCallers]_vars

\* no step of the validator or of the resolver changes the table, or the
\* groups, it was given
CallerTablesKept ==
    /\ vcaller' = vcaller
    /\ rtable' = rtable
    /\ rgroups' = rgroups

\* C18: the table passed to clean_dataset, to DataValidator or to
\* resolve_duplicates has the same rows, values and column names at every
\* point of the call and after it, whether the call succeeds or fails.
C18_CallerTableNotMutated == [](caller = input) /\ [][CallerTablesKept]_vars

\* a first run of clean_dataset returned a table that differs from the one it
\* was given, which still is as the caller passed it
C18_Witness ==
    /\ Done /\ run = 1
    /\ ret.report.cleaning_status = "success"
    /\ ret.df # input
    /\ input.cols # df.cols
    /\ caller = input


(***************************************************************************)
(* The email rule of the pipeline's validation stage.                      *)
(***************************************************************************)
\* the positions of the rows of df whose email is missing or is not of the
\* form local@domain.tld
BadEmails(table) ==
    {i \in DOMAIN table.rows :
        LET c == Column(table, K_email)[i] IN ~(c.k = "str" /\ EmailMatches(c.s))}

\* the positions of the rows that the phone, segment or required-field rule
\* rejects
RejectedLater(table) ==
    {i \in DOMAIN table.rows :
        \/ HasCol(table, K_phone) /\ ~PhoneMask(table)[i]
        \/ HasCol(table, K_segment) /\ ~SegmentMask(table)[i]
        \/ HasCol(table, K_name) /\ MissingMask(table, K_name)[i]}

\* a successful validation stage on a table with an email column
EmailRuleStep ==
    (pc = "validate" /\ pc' = "final" /\ HasCol(df, K_email)) =>
        /\ \A i \in BadEmails(df) : df.rows[i].idx \notin Labels(df')
        /\ \A i \in DOMAIN df.rows \ (BadEmails(df) \cup RejectedLater(df)) :
               df.rows[i] \in Range(df'.rows)
        /\ report'.invalid_emails_removed = Cardinality(BadEmails(df))

\* C21: the validation stage removes every row whose email is missing or does
\* not match local@domain.tld, the email rule removes no row whose email
\* matches, and invalid_emails_removed is the number of rows with such an email.
C21_EmailRule == [][EmailRuleStep]_vars

\* the stage removed a row for its missing email and kept another row
C21_Witness ==
    /\ pc = "final" /\ run = 1
    /\ HasCol(df, K_email)
    /\ report.invalid_emails_removed = 1
    /\ NRows(df) >= 1
    /\ \E i \in DOMAIN input.rows : \E j \in DOMAIN input.rows[i].v :
           input.cols[j] = K_email /\ IsNa(input.rows[i].v[j])


(***************************************************************************)
(* cluster_similar_profiles                                                *)
(*                                                                         *)
(* The labels AgglomerativeClustering assigns are any labelling that uses  *)
(* each of the n_clusters labels: the numeric Ward linkage over the TF-IDF *)
(* vectors is not computed.                                                *)
(***************************************************************************)
K_cluster_id == <<"c","l","u","s","t","e","r","_","i","d">>

WordChars == Letters \cup Digits \cup {"_"}

\* the part of the 'english' stop word list that the texts below can hold
StopWords == { <<"a","n">> }

\* df[columns_to_cluster].astype(str).agg(' '.join, axis=1), row i
CombinedText(table, i) ==
    LET v == table.rows[i].v
        join[n \in 0..Len(v)] ==
            IF n = 0 THEN << >>
            ELSE IF n = 1 THEN PyStr(v[1])
            ELSE join[n - 1] \o <<" ">> \o PyStr(v[n])
    IN join[Len(v)]

\* the tokens TfidfVectorizer(stop_words='english') takes from a text: the
\* lower-cased runs of two or more word characters that are not stop words
Tokens(text) ==
    LET t == Lower(text)
    IN {SubSeq(t, x[1], x[2]) : x \in
           {y \in (DOMAIN t) \X (DOMAIN t) :
               /\ y[1] < y[2]
               /\ \A a \in y[1]..y[2] : t[a] \in WordChars
               /\ y[1] = 1 \/ t[y[1] - 1] \notin WordChars
               /\ y[2] = Len(t) \/ t[y[2] + 1] \notin WordChars}}
       \ StopWords

\* vectorizer.fit_transform raises ValueError on an empty vocabulary
EmptyVocabulary(table) ==
    \A i \in DOMAIN table.rows : Tokens(CombinedText(table, i)) = {}

\* lines 15-17; the threshold is the default 0.8, in hundredths
AutoClusters(n) ==
    LET auto == ((100 - 80) * n) \div 100 + 1
        half == n \div 2
        least == IF auto < half THEN auto ELSE half
    IN IF least > 2 THEN least ELSE 2

\* fit_predict: each of the k labels 0..k-1 is given to at least one row
Labellings(n, k) ==
    {f \in [1..n -> 0..(k - 1)] : \A c \in 0..(k - 1) : \E i \in 1..n : f[i] = c}

\* df['cluster_id'] = clusters: the column is replaced, or added as the last
AssignColumn(table, col, cells) ==
    IF HasCol(table, col) THEN SetCol(table, col, cells)
    ELSE [table EXCEPT
            !.cols = Append(@, col),
            !.rows = [i \in DOMAIN @ |-> [@[i] EXCEPT !.v = Append(@, cells[i])]]]

\* df.groupby('cluster_id').filter(lambda x: len(x) > 1)
FilterGroups(table, labels) ==
    Filter(table, [i \in DOMAIN labels |->
                      Cardinality({j \in DOMAIN labels : labels[j] = labels[i]}) > 1])

VocabularyError == "empty vocabulary; perhaps the documents only contain stop words"
SamplesError == "Found array with 1 sample(s) while a minimum of 2 is required"
ClustersError == "Cannot extract more clusters than samples"

\* the outcomes of cluster_similar_profiles(df, columns, n_clusters): what it
\* returns or raises, and the caller's table object afterwards; the assignment
\* df['cluster_id'] = clusters writes to the object that was passed in
cluster_similar_profiles(table, given_clusters) ==
    LET n == NRows(table)
        k == IF given_clusters = 0 THEN AutoClusters(n) ELSE given_clusters
    IN IF EmptyVocabulary(table)
       THEN {[raised |-> TRUE, error |-> VocabularyError, df |-> EmptyFrame, caller |-> table]}
       ELSE IF n < 2
       THEN {[raised |-> TRUE, error |-> SamplesError, df |-> EmptyFrame, caller |-> table]}
       ELSE IF k > n
       THEN {[raised |-> TRUE, error |-> ClustersError, df |-> EmptyFrame, caller |-> table]}
       ELSE {LET assigned == AssignColumn(table, K_cluster_id,
                                          [i \in 1..n |-> Num(clusters[i])])
             IN [raised |-> FALSE, error |-> "",
                 df |-> FilterGroups(assigned, clusters),
                 caller |-> assigned]
             : clusters \in Labellings(n, k)}

(***************************************************************************)
(* The tables handed to cluster_similar_profiles.                          *)
(***************************************************************************)
MaxCRows == 3

HeaderC == <<K_name, K_city>>
RowsC ==
    { <<Str(<<"a","b">>), Str(<<"c","d">>)>>, <<Str(<<"a","b">>), NaN>>,
      <<Str(<<"a">>), Str(<<"a","n">>)>>, <<NaN, Str(<<"a">>)>> }
GivenClusters == 0..3

InitCluster ==
    /\ IdlePipeline /\ IdleMerge /\ IdleResolver /\ IdleValidator /\ IdleDetection
    /\ cgiven \in {Frame(HeaderC, vs) : vs \in SeqsUpTo(RowsC, MaxCRows)}
    /\ ctable = cgiven
    /\ n_clusters \in GivenClusters
    /\ clustered = [raised |-> FALSE, df |-> EmptyFrame]
    /\ cpc = "call"

Cluster ==
    /\ cpc = "call"
    /\ \E out \in cluster_similar_profiles(ctable, n_clusters) :
          /\ clustered' = [raised |-> out.raised, df |-> out.df]
          /\ ctable' = out.caller
    /\ cpc' = "clustered"
    /\ UNCHANGED <<cgiven, n_clusters, pvars, mvars, rvars, vvars, fvars>>

NextCluster == Cluster

SpecCluster == InitCluster /\ [][NextCluster]_vars

Clustered == cpc = "clustered" /\ ~clustered.raised

\* C22: after cluster_similar_profiles the caller's table has the columns and
\* values it had before the call; the cluster assignment is in the returned
\* table only, which holds exactly the records whose cluster has more than
\* one member.
C22_CallerTableKept ==
    cpc = "clustered" =>
        /\ ctable = cgiven
        /\ ~HasCol(ctable, K_cluster_id)
        /\ ~clustered.raised =>
               \E labels \in [DOMAIN cgiven.rows -> 0..(NRows(cgiven) - 1)] :
                   clustered.df =
                       FilterGroups(AssignColumn(cgiven, K_cluster_id,
                                                 [i \in DOMAIN labels |-> Num(labels[i])]),
                                    labels)


(***************************************************************************)
(* identify_duplicate_groups, followed by resolve_duplicates on its groups *)
(***************************************************************************)
\* the projection of a row onto the key columns
KeyOf(table, row, key_columns) ==
    [k \in DOMAIN key_columns |-> Cell(table, row, key_columns[k])]

\* the order in which groupby(keys) sorts its group keys
RECURSIVE KeyLess(_, _)
KeyLess(a, b) ==
    IF a = << >> \/ b = << >> THEN FALSE
    ELSE IF Head(a) # Head(b) THEN CellLess(Head(a), Head(b))
    ELSE KeyLess(Tail(a), Tail(b))

RECURSIVE SortedKeys(_)
SortedKeys(S) ==
    IF S = {} THEN << >>
    ELSE LET least == CHOOSE x \in S : \A y \in S \ {x} : KeyLess(x, y)
         IN <<least>> \o SortedKeys(S \ {least})

\* df.groupby(keys), iterated: one table per distinct key, in key order, each
\* with its rows in table order under their labels; groupby leaves out
\* (dropna=True) every row that misses a value in a key column
identify_duplicate_groups(table, key_columns) ==
    LET grouped == {i \in DOMAIN table.rows :
                       \A k \in DOMAIN key_columns :
                           ~IsNa(KeyOf(table, table.rows[i], key_columns)[k])}
        order == SortedKeys({KeyOf(table, table.rows[i], key_columns) : i \in grouped})
    IN [g \in DOMAIN order |->
           Filter(table, [i \in DOMAIN table.rows |->
                             i \in grouped
                             /\ KeyOf(table, table.rows[i], key_columns) = order[g]])]

MaxGRows == 3

RowsG == {<<n, Num(1), c>> : n \in {Str(T_Jd), Str(T_jd), NaN}, c \in {Str(<<"a">>), NaN}}
KeyLists == {<<K_name>>, <<K_name, K_city>>}

InitGroup ==
    /\ IdlePipeline /\ IdleMerge /\ IdleValidator /\ IdleDetection /\ IdleClustering
    /\ rtable \in {Frame(HeaderR, vs) : vs \in SeqsUpTo(RowsG, MaxGRows)}
    /\ keys \in KeyLists
    /\ rgroups = << >>
    /\ index_column \in {None, Str(K_id)}
    /\ resolved = [raised |-> FALSE, df |-> << >>]
    /\ rpc = "group"

\* the resolver is called with merge_strategy = 'first_valid', the default
IdentifyGroups ==
    /\ rpc = "group"
    /\ rgroups' = identify_duplicate_groups(rtable, keys)
    /\ rpc' = "call"
    /\ UNCHANGED <<rtable, index_column, resolved, keys, pvars, mvars, vvars, fvars, cvars>>

ResolveGroups ==
    /\ rpc = "call"
    /\ resolved' \in resolve_duplicates(rtable, rgroups, "first_valid", index_column)
    /\ rpc' = "resolved"
    /\ UNCHANGED <<rtable, rgroups, index_column, keys, pvars, mvars, vvars, fvars, cvars>>

NextGroup == IdentifyGroups \/ ResolveGroups

SpecGroup == InitGroup /\ [][NextGroup]_vars

\* C23: every record of the table, a record that misses a key value included,
\* is in exactly one group of identify_duplicate_groups, and resolve_duplicates
\* returns one row per distinct key projection of the table.
C23_GroupingLosesNoRecord ==
    /\ rpc \in {"call", "resolved"} =>
           \A i \in DOMAIN rtable.rows :
               Cardinality({g \in DOMAIN rgroups :
                               rtable.rows[i] \in Range(rgroups[g].rows)}) = 1
    /\ (Resolved /\ ~resolved.raised) =>
           Len(resolved.df)
               = Cardinality({KeyOf(rtable, rtable.rows[i], keys) : i \in DOMAIN rtable.rows})


(***************************************************************************)
(* The record kept from each composite-key group.                          *)
(***************************************************************************)
\* the positions of the rows of t with composite key k
Members(t, k) == {i \in DOMAIN t.rows : CompositeKey(t, t.rows[i]) = k}

\* the member with the most non-missing fields, the first of them in table order
MostComplete(t, k) ==
    CHOOSE i \in Members(t, k) :
        \A j \in Members(t, k) :
            \/ Score(t.rows[j]) < Score(t.rows[i])
            \/ Score(t.rows[j]) = Score(t.rows[i]) /\ i <= j

\* C24: fuzzy-duplicate removal keeps one record per composite-key group, an
\* unchanged member of the group with the most non-missing fields and the
\* first such member in table order; the removed count is the number of rows
\* minus the number of groups, and the number of rows absent from the output.
C24_OneRecordPerGroup ==
    (pc = "format" /\ grouping.fuzzy) =>
        LET t == grouping.df
            keyset == {CompositeKey(t, t.rows[i]) : i \in DOMAIN t.rows}
        IN /\ NRows(df) = Cardinality(keyset)
           /\ \A k \in keyset :
                  /\ Cardinality(Members(df, k)) = 1
                  /\ \A r \in Members(df, k) : df.rows[r].v = t.rows[MostComplete(t, k)].v
           /\ report.fuzzy_duplicates_removed = NRows(t) - Cardinality(keyset)
           /\ report.fuzzy_duplicates_removed
                  = Cardinality({i \in DOMAIN t.rows : t.rows[i].v \notin Records(df)})

\* a group of two records of which the second, the more complete, was kept
C24_Witness ==
    /\ pc = "format" /\ grouping.fuzzy
    /\ report.fuzzy_duplicates_removed = 1
    /\ \E g \in DOMAIN grouping.groups :
          LET idxs == grouping.groups[g].idxs
          IN /\ Len(idxs) = 2
             /\ RowAt(grouping.df, idxs[2]).v \in Records(df)
             /\ RowAt(grouping.df, idxs[1]).v \notin Records(df)


(***************************************************************************)
(* Where a row with a missing email is counted.                            *)
(***************************************************************************)
\* the positions of the rows of a table whose email is missing
MissingEmails(table) == {i \in DOMAIN table.rows : IsNa(Column(table, K_email)[i])}

\* a counter of a report, 0 when the report does not have it
Counted(r, key) == IF key \in DOMAIN r THEN r[key] ELSE 0

\* C25, as stated: in every successful run on a table with an email column
\* missing_required_fields['email'] is 0 and every row of the table with a
\* missing email is counted under invalid_emails_removed.
C25_MissingEmailCountedAsInvalid ==
    (Done /\ run = 1 /\ ret.report.cleaning_status = "success"
          /\ HasCol(Prepared(input), K_email)) =>
        /\ ret.report.missing_required_fields[K_email] = 0
        /\ ret.report.invalid_emails_removed
               >= Cardinality(MissingEmails(Prepared(input)))

\* a successful validation stage on a table with an email column: no missing
\* email is left for the required-field check, the rows with a missing email
\* are among those counted under invalid_emails_removed, and each removed row
\* is counted under one validation counter only
MissingEmailStep ==
    (pc = "validate" /\ pc' = "final" /\ HasCol(df, K_email)) =>
        /\ report'.missing_required_fields[K_email] = 0
        /\ \A i \in MissingEmails(df) : df.rows[i].idx \notin Labels(df')
        /\ report'.invalid_emails_removed
               = Cardinality(MissingEmails(df))
                 + Cardinality(BadEmails(df) \ MissingEmails(df))
        /\ report'.invalid_emails_removed
               + Counted(report', "invalid_phones_removed")
               + Counted(report', "invalid_segments_removed")
               + SumOver(report'.missing_required_fields,
                         DOMAIN report'.missing_required_fields)
               = NRows(df) - NRows(df')

\* C25, amended: every row with a missing email that reaches the validation
\* stage is counted under invalid_emails_removed and under no other validation
\* counter, and missing_required_fields['email'] is 0.
C25_MissingEmailCountedOnce == [][MissingEmailStep]_vars

\* of two equal rows with a missing email one was removed as an exact
\* duplicate and the other by the email rule
C25_Witness ==
    /\ pc = "final" /\ run = 1
    /\ Cardinality(MissingEmails(Prepared(input))) = 2
    /\ report.exact_duplicates_removed = 1
    /\ report.invalid_emails_removed = 1
    /\ report.missing_required_fields[K_email] = 0

=============================================================================
